---- MODULE Spec2Model ----
(***************************************************************************)
(* Rule evaluation and risk-scoring engine (src/src/services/ruleEngine.js)*)
(* as a state machine: the catalog (two insertion-ordered Maps), the       *)
(* registration operations, and executeCompliance, an async function that  *)
(* is suspended once per selected rule while the rule's predicate runs.    *)
(***************************************************************************)
EXTENDS Integers, Sequences, FiniteSets, TLC

VARIABLES
  frameworks,   \* RuleEngine.frameworks: Map code -> framework, in insertion order
  rules,        \* RuleEngine.rules: Map "framework:code" -> rule, in insertion order
  calls,        \* the executeCompliance invocations, by call slot
  initialized,  \* ComplianceService.initialized
  probe,        \* a call of a scoring function on its own: argument and value
  thrown,       \* the message of the Error the latest call of an engine method
                \* threw to its caller, NoError if it returned
  clock,        \* what Date.now() returns, in milliseconds
  check,        \* a runComplianceCheck invocation of the service
  scan_results  \* the documents of the MongoDB collection scan_results

vars == <<frameworks, rules, calls, initialized, probe, thrown, clock, check,
          scan_results>>

-----------------------------------------------------------------------------
(* Bounds of the model *)

\* largest number of entries the rules Map is grown to
MaxRules == 3

\* longest list of outcomes a scoring function is applied to on its own
MaxOutcomes == 3

\* longest list of outcomes of the framework whose result is varied in the
\* results given to the report enhancer
MaxFindings == 2

\* longest list of failed outcomes given to the report enhancer
MaxFailures == 6

\* latest millisecond the clock is advanced to
MaxClock == 1

\* the call slots; Spec drives slot 1, SpecConcurrent both
CallIds == {1, 2}

-----------------------------------------------------------------------------
(* Values *)

\* JavaScript's undefined, for a rule that carries no severity
Undefined == "undefined"

Severities == {"critical", "high", "medium", "low"}

\* an option of executeCompliance: null/absent, or an array of strings (its
\* elements matter only through Array.prototype.includes)
Absent == [present |-> FALSE, items |-> {}]

Arr(S) == [present |-> TRUE, items |-> S]

\* what awaiting rule.evaluate(inputData) gives: the promise resolves with
\* {passed, message} or rejects with an Error carrying message
Resolve(p, m) == [kind |-> "resolve", passed |-> p, message |-> m]

Reject(m) == [kind |-> "reject", passed |-> FALSE, message |-> m]

\* the promise of a predicate that never settles
Pending == [kind |-> "pending", passed |-> FALSE, message |-> ""]

Evaluations == {Resolve(TRUE, "ok"), Resolve(FALSE, "gap"), Reject("boom")}

\* the predicates of the rules that get registered; a snapshot (inputData)
\* is modelled by what each predicate evaluates to on it
PredIds == {"p1", "p2"}

Snapshots == [PredIds -> Evaluations]

\* frameworks offered to registerFramework ("A" twice, with different versions)
FrameworkPool ==
  { [code |-> "A", name |-> "Alpha", version |-> "1"],
    [code |-> "A", name |-> "Alpha", version |-> "2"],
    [code |-> "B", name |-> "Beta",  version |-> "1"] }

\* rules offered to registerRule: two frameworks, a key offered twice with
\* different contents, every severity, a rule without severity, and a rule of
\* a framework that is never registered
RulePool ==
  { [framework |-> "A", code |-> "r1", category |-> "access",
     severity |-> "critical", evaluate |-> "p1"],
    [framework |-> "A", code |-> "r1", category |-> "network",
     severity |-> "high", evaluate |-> "p2"],
    [framework |-> "A", code |-> "r2", category |-> "network",
     severity |-> "medium", evaluate |-> "p2"],
    [framework |-> "B", code |-> "r1", category |-> "access",
     severity |-> "low", evaluate |-> "p2"],
    [framework |-> "A", code |-> "r3", category |-> "network",
     severity |-> Undefined, evaluate |-> "p1"],
    [framework |-> "Z", code |-> "r1", category |-> "access",
     severity |-> "critical", evaluate |-> "p1"] }

-----------------------------------------------------------------------------
(* Map: a sequence of entries [key, value] in insertion order *)

MapHas(m, k) == \E i \in 1..Len(m) : m[i].key = k

MapGet(m, k) == m[CHOOSE i \in 1..Len(m) : m[i].key = k].value

\* Map.prototype.set: an existing key keeps its position and gets the new
\* value; a new key is appended
MapSet(m, k, v) ==
  IF MapHas(m, k)
  THEN [i \in 1..Len(m) |-> IF m[i].key = k THEN [key |-> k, value |-> v] ELSE m[i]]
  ELSE Append(m, [key |-> k, value |-> v])

\* Array.from(map.values())
MapValues(m) == [i \in 1..Len(m) |-> m[i].value]

-----------------------------------------------------------------------------
(* Sequence helpers *)

RECURSIVE SelectSeqBy(_, _)
\* Array.prototype.filter with the predicate given as the set of kept elements
SelectSeqBy(s, keep) ==
  IF s = <<>> THEN <<>>
  ELSE IF Head(s) \in keep
       THEN <<Head(s)>> \o SelectSeqBy(Tail(s), keep)
       ELSE SelectSeqBy(Tail(s), keep)

Range(s) == {s[i] : i \in 1..Len(s)}

-----------------------------------------------------------------------------
(* Session ids *)

\* the digits of Number.prototype.toString(36)
Base36Digits ==
  << "0", "1", "2", "3", "4", "5", "6", "7", "8", "9", "a", "b", "c", "d", "e",
     "f", "g", "h", "i", "j", "k", "l", "m", "n", "o", "p", "q", "r", "s", "t",
     "u", "v", "w", "x", "y", "z" >>

RECURSIVE toString36(_)
\* n.toString(36) for an integer n >= 0
toString36(n) ==
  IF n < 36 THEN Base36Digits[n + 1]
  ELSE toString36(n \div 36) \o Base36Digits[(n % 36) + 1]

\* what Math.random().toString(36).substring(2, 8) can give: up to six
\* base-36 digits
RandomDraws == {"k3f9x2", "0a1b2c"}

\* `session_${timestamp}_${randomStr}`, for Date.now() = now and the digits
\* randomStr drawn from Math.random()
generateSessionId(now, randomStr) ==
  "session_" \o toString36(now) \o "_" \o randomStr

-----------------------------------------------------------------------------
(* Catalog registration *)

\* the composite key of registerRule: `${rule.framework}:${rule.code}`
ruleKey(rule) == rule.framework \o ":" \o rule.code

\* no executeCompliance has been started: registration completes at process
\* start, before the first evaluation
Registering == \A c \in CallIds : calls[c].pc = "idle"

\* the call returned
NoError == <<>>

\* `Framework ${rule.framework} not registered`, by the parts of the template
NotRegistered(frameworkCode) == <<"Framework ", frameworkCode, " not registered">>

registerFramework(framework) ==
  /\ Registering
  /\ frameworks' = MapSet(frameworks, framework.code, framework)
  /\ thrown' = NoError
  /\ UNCHANGED <<rules, calls, initialized, probe, clock, check, scan_results>>

\* variant of registerRule: the rule is set before the framework is looked up
registerRule_SetThenThrow(rule) ==
  /\ Registering
  /\ MapHas(rules, ruleKey(rule)) \/ Len(rules) < MaxRules
  /\ rules' = MapSet(rules, ruleKey(rule), rule)
  /\ thrown' = IF ~MapHas(frameworks, rule.framework)
               THEN NotRegistered(rule.framework) ELSE NoError
  /\ UNCHANGED <<frameworks, calls, initialized, probe, clock, check, scan_results>>

\* variant of registerRule: a key that is already set keeps its rule
registerRule_KeepFirst(rule) ==
  /\ Registering
  /\ IF ~MapHas(frameworks, rule.framework)
     THEN /\ thrown' = NotRegistered(rule.framework)
          /\ UNCHANGED rules
     ELSE /\ MapHas(rules, ruleKey(rule)) \/ Len(rules) < MaxRules
          /\ rules' = IF MapHas(rules, ruleKey(rule)) THEN rules
                       ELSE MapSet(rules, ruleKey(rule), rule)
          /\ thrown' = NoError
  /\ UNCHANGED <<frameworks, calls, initialized, probe, clock, check, scan_results>>

registerRule(rule) ==
  /\ Registering
  /\ IF ~MapHas(frameworks, rule.framework)
     THEN \* throw new Error(`Framework ${rule.framework} not registered`)
          /\ thrown' = NotRegistered(rule.framework)
          /\ UNCHANGED rules
     ELSE /\ MapHas(rules, ruleKey(rule)) \/ Len(rules) < MaxRules
          /\ rules' = MapSet(rules, ruleKey(rule), rule)
          /\ thrown' = NoError
  /\ UNCHANGED <<frameworks, calls, initialized, probe, clock, check, scan_results>>

-----------------------------------------------------------------------------
(* Risk scorer *)

\* what Math.round gives for 0/0
NaN == -1

\* Math.round((p / q) * 100) for integers p >= 0, q >= 0, with p = 0 when
\* q = 0. Math.round rounds to the nearest integer, a tie towards +Infinity.
\* The double (p / q) * 100 lies on the same side of every k + 0.5 as the
\* exact quotient for all 0 <= p <= q < 40, which covers every denominator
\* reached here (the first double that falls short is (23 / 40) * 100 =
\* 57.49999999999999).
MathRoundPct(p, q) ==
  IF q = 0 THEN NaN ELSE (200 * p + q) \div (2 * q)

\* variant of getSeverityWeight: `weights[severity] || 0`
getSeverityWeight_DefaultZero(severity) ==
  CASE severity = "low"      -> 1
    [] severity = "medium"   -> 2
    [] severity = "high"     -> 3
    [] severity = "critical" -> 4
    [] OTHER                 -> 0

\* variant of getSeverityWeight: the table is upside down
getSeverityWeight_Inverted(severity) ==
  CASE severity = "low"      -> 4
    [] severity = "medium"   -> 3
    [] severity = "high"     -> 2
    [] severity = "critical" -> 1
    [] OTHER                 -> 1

\* weights[severity] || 1
getSeverityWeight(severity) ==
  CASE severity = "low"      -> 1
    [] severity = "medium"   -> 2
    [] severity = "high"     -> 3
    [] severity = "critical" -> 4
    [] OTHER                 -> 1

RECURSIVE SumWeights(_)
\* the sum of the severity weights of a list of outcomes
SumWeights(rule_results) ==
  IF rule_results = <<>> THEN 0
  ELSE getSeverityWeight(Head(rule_results).severity) + SumWeights(Tail(rule_results))

\* the forEach of calculateFrameworkRiskScore adds the weight of every outcome
\* with status !== 'SKIP' to totalWeight, and of those with status === 'FAIL'
\* to weightedFailures
calculateFrameworkRiskScore(frameworkResult) ==
  LET effectiveTotal == frameworkResult.total - frameworkResult.skipped
      rr == frameworkResult.rule_results
      counted == SelectSeqBy(rr, {r \in Range(rr) : r.status # "SKIP"})
      failing == SelectSeqBy(counted, {r \in Range(counted) : r.status = "FAIL"})
      weightedFailures == SumWeights(failing)
      totalWeight == SumWeights(counted)
  IN  IF effectiveTotal = 0 THEN 0
      ELSE IF totalWeight > 0 THEN MathRoundPct(weightedFailures, totalWeight) ELSE 0

\* variant of calculateRiskScore: without the two early returns of 0
calculateRiskScore_Unguarded(results) ==
  MathRoundPct(results.failed_rules, results.total_rules - results.skipped_rules)

\* variant of calculateRiskScore: weighted by severity, as the framework
\* score is
calculateRiskScore_Weighted(results) ==
  LET rr == results.detailed_results
      counted == SelectSeqBy(rr, {r \in Range(rr) : r.status # "SKIP"})
      failing == SelectSeqBy(counted, {r \in Range(counted) : r.status = "FAIL"})
  IN  IF SumWeights(counted) = 0 THEN 0
      ELSE MathRoundPct(SumWeights(failing), SumWeights(counted))

calculateRiskScore(results) ==
  LET effectiveTotal == results.total_rules - results.skipped_rules
  IN  IF results.total_rules = 0 THEN 0
      ELSE IF effectiveTotal = 0 THEN 0
      ELSE MathRoundPct(results.failed_rules, effectiveTotal)

-----------------------------------------------------------------------------
(* Rule execution *)

\* variant of executeRule: the catch block reports a rejection as FAIL
executeRule_RejectAsFail(rule, evaluation) ==
  LET ruleResult == [rule_code |-> rule.code, status |-> "SKIP", message |-> <<>>,
                     severity |-> rule.severity, category |-> rule.category]
  IN  IF evaluation.kind = "resolve"
      THEN [ruleResult EXCEPT
              !.status = IF evaluation.passed THEN "PASS" ELSE "FAIL",
              !.message = <<evaluation.message>>]
      ELSE [ruleResult EXCEPT
              !.status = "FAIL",
              !.message = <<"Rule evaluation error: ", evaluation.message>>]

\* variant of executeRule: the message of a resolved predicate carries
\* Date.now()
executeRule_Timestamped(rule, evaluation) ==
  LET ruleResult == [rule_code |-> rule.code, status |-> "SKIP", message |-> <<>>,
                     severity |-> rule.severity, category |-> rule.category]
  IN  IF evaluation.kind = "resolve"
      THEN [ruleResult EXCEPT
              !.status = IF evaluation.passed THEN "PASS" ELSE "FAIL",
              !.message = <<evaluation.message, toString36(clock)>>]
      ELSE [ruleResult EXCEPT
              !.status = "ERROR",
              !.message = <<"Rule evaluation error: ", evaluation.message>>]

\* variant of executeRule: the catch block records the message and leaves the
\* status as it was
executeRule_RejectAsSkip(rule, evaluation) ==
  LET ruleResult == [rule_code |-> rule.code, status |-> "SKIP", message |-> <<>>,
                     severity |-> rule.severity, category |-> rule.category]
  IN  IF evaluation.kind = "resolve"
      THEN [ruleResult EXCEPT
              !.status = IF evaluation.passed THEN "PASS" ELSE "FAIL",
              !.message = <<evaluation.message>>]
      ELSE [ruleResult EXCEPT
              !.message = <<"Rule evaluation error: ", evaluation.message>>]

\* executeRule: the outcome of one rule, given what awaiting its predicate
\* gave. A message is the sequence of the parts of its template string.
executeRule(rule, evaluation) ==
  LET ruleResult == [rule_code |-> rule.code, status |-> "SKIP", message |-> <<>>,
                     severity |-> rule.severity, category |-> rule.category]
  IN  IF evaluation.kind = "resolve"
      THEN [ruleResult EXCEPT
              !.status = IF evaluation.passed THEN "PASS" ELSE "FAIL",
              !.message = <<evaluation.message>>]
      ELSE [ruleResult EXCEPT
              !.status = "ERROR",
              !.message = <<"Rule evaluation error: ", evaluation.message>>]

\* the result object executeFrameworkRules starts from
newFrameworkResult(frameworkCode, frameworkRules) ==
  LET framework == MapGet(frameworks, frameworkCode)
  IN  [framework |-> framework.name, framework_code |-> frameworkCode,
       version |-> framework.version, total |-> Len(frameworkRules),
       passed |-> 0, failed |-> 0, skipped |-> 0,
       compliance_percentage |-> 0, risk_score |-> 0, rule_results |-> <<>>]

\* the body of the loop of executeFrameworkRules after executeRule returned:
\* push the outcome and count it by the switch on its status (a status with
\* no case, ERROR, changes no counter). executeRule catches the Error its
\* predicate throws, so the catch block of the loop is not entered for it
\* (it would be for a predicate that throws null or undefined, whose
\* `error.message` makes the catch block of executeRule throw in turn; the
\* evaluations of the model reject with an Error).
countRuleResult(result, ruleResult) ==
  LET pushed == [result EXCEPT !.rule_results = Append(@, ruleResult)]
  IN  CASE ruleResult.status = "PASS" -> [pushed EXCEPT !.passed = @ + 1]
        [] ruleResult.status = "FAIL" -> [pushed EXCEPT !.failed = @ + 1]
        [] ruleResult.status = "SKIP" -> [pushed EXCEPT !.skipped = @ + 1]
        [] OTHER -> pushed

\* variant of compliancePercentage: the denominator leaves out the failed
\* rules instead of the skipped ones
compliancePercentage_ExcludesFailed(result) ==
  IF result.total > 0
  THEN MathRoundPct(result.passed, result.total - result.failed)
  ELSE 0

\* variant of compliancePercentage: Math.floor in place of Math.round
compliancePercentage_Floor(result) ==
  IF result.total > 0
  THEN (100 * result.passed) \div (result.total - result.skipped)
  ELSE 0

\* result.total > 0 ? Math.round((passed / (total - skipped)) * 100) : 0
compliancePercentage(result) ==
  IF result.total > 0
  THEN MathRoundPct(result.passed, result.total - result.skipped)
  ELSE 0

\* the end of executeFrameworkRules, after its loop
finishFrameworkResult(result) ==
  LET withPct == [result EXCEPT !.compliance_percentage = compliancePercentage(result)]
  IN  [withPct EXCEPT !.risk_score = calculateFrameworkRiskScore(withPct)]

-----------------------------------------------------------------------------
(* Selection and grouping *)

\* one filter step: `f && f.length > 0` keeps the rules whose field is
\* included in f, anything else keeps all
Allowed(filter, value) ==
  IF filter.present /\ filter.items # {} THEN value \in filter.items ELSE TRUE

\* variant of filterRules: the categories step is missing
filterRules_NoCategories(fws, categories, severity) ==
  LET all == MapValues(rules)
  IN  SelectSeqBy(all, {r \in Range(all) :
        /\ Allowed(fws, r.framework)
        /\ Allowed(severity, r.severity)})

\* variant of filterRules: the severity step is missing
filterRules_NoSeverity(fws, categories, severity) ==
  LET all == MapValues(rules)
  IN  SelectSeqBy(all, {r \in Range(all) :
        /\ Allowed(fws, r.framework)
        /\ Allowed(categories, r.category)})

filterRules(fws, categories, severity) ==
  LET all == MapValues(rules)
  IN  SelectSeqBy(all, {r \in Range(all) :
        /\ Allowed(fws, r.framework)
        /\ Allowed(categories, r.category)
        /\ Allowed(severity, r.severity)})

RECURSIVE groupRulesByFramework_Prepend(_)
\* variant of groupRulesByFramework: a rule is put in front of its group
groupRulesByFramework_Prepend(rs) ==
  IF rs = <<>> THEN <<>>
  ELSE LET init == groupRulesByFramework_Prepend(SubSeq(rs, 1, Len(rs) - 1))
           rule == rs[Len(rs)]
           old  == IF MapHas(init, rule.framework)
                   THEN MapGet(init, rule.framework) ELSE <<>>
       IN  MapSet(init, rule.framework, <<rule>> \o old)

RECURSIVE groupRulesByFramework(_)
\* reduce over the rules: an object keyed by framework code, its keys in the
\* order of first appearance, each holding its rules in their order
groupRulesByFramework(rs) ==
  IF rs = <<>> THEN <<>>
  ELSE LET init == groupRulesByFramework(SubSeq(rs, 1, Len(rs) - 1))
           rule == rs[Len(rs)]
           old  == IF MapHas(init, rule.framework)
                   THEN MapGet(init, rule.framework) ELSE <<>>
       IN  MapSet(init, rule.framework, Append(old, rule))

\* Object.keys
Keys(m) == [i \in 1..Len(m) |-> m[i].key]

-----------------------------------------------------------------------------
(* executeCompliance *)

\* a call slot in which no call has been made
IdleCall ==
  [pc |-> "idle", inputData |-> <<>>, options |-> <<>>, rulesByFramework |-> <<>>,
   fw |-> 0, result |-> <<>>, results |-> <<>>, inFlight |-> {}]

\* variant of invoke: on entering a framework the predicates of all its rules
\* are invoked together, and awaited one after the other
invoke_AllAtOnce(frameworkRules, position) ==
  IF position = 1 THEN {ruleKey(frameworkRules[i]) : i \in 1..Len(frameworkRules)}
  ELSE {}

\* the predicates invoked when the loop of executeFrameworkRules reaches a
\* position of its rules: `await this.executeRule(rule, inputData)` calls
\* rule.evaluate for that rule alone
invoke(frameworkRules, position) == {ruleKey(frameworkRules[position])}

\* variant of newResults: frameworks_tested lists every registered framework
newResults_AllFrameworks(session_id, rulesToExecute, rulesByFramework) ==
  [session_id |-> session_id,
   frameworks_tested |-> Keys(frameworks),
   total_rules |-> Len(rulesToExecute),
   passed_rules |-> 0, failed_rules |-> 0, skipped_rules |-> 0,
   overall_risk_score |-> 0,
   framework_results |-> <<>>, detailed_results |-> <<>>]

\* the results object executeCompliance starts from, after selection and
\* grouping (timestamp, input_data_summary and execution time are not part
\* of the model)
newResults(session_id, rulesToExecute, rulesByFramework) ==
  [session_id |-> session_id,
   frameworks_tested |-> Keys(rulesByFramework),
   total_rules |-> Len(rulesToExecute),
   passed_rules |-> 0, failed_rules |-> 0, skipped_rules |-> 0,
   overall_risk_score |-> 0,
   framework_results |-> <<>>, detailed_results |-> <<>>]

\* variant of addFrameworkResult: the counters are assigned, not added to
addFrameworkResult_Overwrite(results, frameworkCode, frameworkResult) ==
  [results EXCEPT
     !.framework_results = MapSet(@, frameworkCode, frameworkResult),
     !.passed_rules = frameworkResult.passed,
     !.failed_rules = frameworkResult.failed,
     !.skipped_rules = frameworkResult.skipped,
     !.detailed_results = @ \o frameworkResult.rule_results]

\* the body of the loop over the frameworks, after executeFrameworkRules
\* returned frameworkResult
addFrameworkResult(results, frameworkCode, frameworkResult) ==
  [results EXCEPT
     !.framework_results = MapSet(@, frameworkCode, frameworkResult),
     !.passed_rules = @ + frameworkResult.passed,
     !.failed_rules = @ + frameworkResult.failed,
     !.skipped_rules = @ + frameworkResult.skipped,
     !.detailed_results = @ \o frameworkResult.rule_results]

\* the end of executeCompliance, after the loop over the frameworks
finishResults(results) ==
  [results EXCEPT !.overall_risk_score = calculateRiskScore(results)]

\* variant of executeCompliance: the selected rules are removed from the
\* catalog
executeCompliance_Unregisters(c, inputData, options) ==
  /\ calls[c].pc = "idle"
  /\ \E randomStr \in RandomDraws :
       LET rulesToExecute == filterRules(options.frameworks, options.categories,
                                         options.severity)
           rulesByFramework == groupRulesByFramework(rulesToExecute)
           results == newResults(generateSessionId(clock, randomStr),
                                 rulesToExecute, rulesByFramework)
       IN  /\ calls' = [calls EXCEPT ![c] =
                 IF rulesByFramework = <<>>
                 THEN [pc |-> "done", inputData |-> inputData, options |-> options,
                       rulesByFramework |-> rulesByFramework, fw |-> 0, result |-> <<>>,
                       results |-> finishResults(results), inFlight |-> {}]
                 ELSE [pc |-> "awaiting", inputData |-> inputData, options |-> options,
                       rulesByFramework |-> rulesByFramework, fw |-> 1,
                       result |-> newFrameworkResult(rulesByFramework[1].key,
                                                     rulesByFramework[1].value),
                       results |-> results,
                       inFlight |-> invoke(rulesByFramework[1].value, 1)]]
           /\ rules' = SelectSeqBy(rules, {e \in Range(rules) :
                                              e.value \notin Range(rulesToExecute)})
  /\ thrown' = NoError
  /\ UNCHANGED <<frameworks, initialized, probe, clock, check, scan_results>>

\* executeCompliance(inputData, options), up to its first suspension: make
\* the session id, select, group, and either return at once (nothing
\* selected) or enter executeFrameworkRules for the first framework and call
\* the predicate of its first rule
executeCompliance(c, inputData, options) ==
  /\ calls[c].pc = "idle"
  /\ \E randomStr \in RandomDraws :
       LET rulesToExecute == filterRules(options.frameworks, options.categories,
                                         options.severity)
           rulesByFramework == groupRulesByFramework(rulesToExecute)
           results == newResults(generateSessionId(clock, randomStr),
                                 rulesToExecute, rulesByFramework)
       IN  calls' = [calls EXCEPT ![c] =
             IF rulesByFramework = <<>>
             THEN [pc |-> "done", inputData |-> inputData, options |-> options,
                   rulesByFramework |-> rulesByFramework, fw |-> 0, result |-> <<>>,
                   results |-> finishResults(results), inFlight |-> {}]
             ELSE [pc |-> "awaiting", inputData |-> inputData, options |-> options,
                   rulesByFramework |-> rulesByFramework, fw |-> 1,
                   result |-> newFrameworkResult(rulesByFramework[1].key,
                                                 rulesByFramework[1].value),
                   results |-> results,
                   inFlight |-> invoke(rulesByFramework[1].value, 1)]]
  /\ thrown' = NoError
  /\ UNCHANGED <<frameworks, rules, initialized, probe, clock, check, scan_results>>

\* variant of settles: a predicate that does not settle is given up after a
\* timeout, as if it had rejected
settles_TimesOut(evaluation) == TRUE

\* whether the promise rule.evaluate(inputData) returned ever settles; the
\* await of executeRule has no timeout and nothing cancels it
settles(evaluation) == evaluation.kind # "pending"

\* variant of predicateSettles: the predicates are given the snapshot of the
\* call made last (one inputData shared by the calls in flight)
predicateSettles_SharedInput(c) ==
  /\ calls[c].pc = "awaiting"
  /\ LET call == calls[c]
         latest == CHOOSE d \in CallIds :
                     /\ calls[d].pc # "idle"
                     /\ \A e \in CallIds : calls[e].pc # "idle" => e <= d
         group == call.rulesByFramework[call.fw]
         rule == group.value[Len(call.result.rule_results) + 1]
         ruleResult == executeRule(rule, calls[latest].inputData[rule.evaluate])
         result == countRuleResult(call.result, ruleResult)
         frameworkResult == finishFrameworkResult(result)
         results == addFrameworkResult(call.results, group.key, frameworkResult)
         next == call.rulesByFramework[call.fw + 1]
     IN  /\ settles(calls[latest].inputData[rule.evaluate])
         /\ calls' = [calls EXCEPT ![c] =
              IF Len(result.rule_results) < result.total
              THEN [call EXCEPT !.result = result,
                                !.inFlight = (@ \ {ruleKey(rule)})
                                  \cup invoke(group.value, Len(result.rule_results) + 1)]
              ELSE IF call.fw < Len(call.rulesByFramework)
              THEN [call EXCEPT !.fw = @ + 1,
                                !.result = newFrameworkResult(next.key, next.value),
                                !.results = results,
                                !.inFlight = (@ \ {ruleKey(rule)}) \cup invoke(next.value, 1)]
              ELSE [call EXCEPT !.pc = "done", !.result = <<>>,
                                !.results = finishResults(results),
                                !.inFlight = @ \ {ruleKey(rule)}]]
  /\ UNCHANGED <<frameworks, rules, initialized, probe, thrown, clock, check, scan_results>>

\* the awaited predicate settles and the call runs on to its next
\* suspension: the outcome is recorded and counted; then the next rule of the
\* framework is started, or the framework result is completed and added to
\* the results and the next framework is entered, or the call returns.
\* inFlight is the set of the rules whose predicate has been invoked and has
\* not settled.
predicateSettles(c) ==
  /\ calls[c].pc = "awaiting"
  /\ LET call == calls[c]
         group == call.rulesByFramework[call.fw]
         rule == group.value[Len(call.result.rule_results) + 1]
         ruleResult == executeRule(rule, call.inputData[rule.evaluate])
         next == call.rulesByFramework[call.fw + 1]
     IN  /\ settles(call.inputData[rule.evaluate])
         /\ \E result \in {countRuleResult(call.result, ruleResult)} :
              LET frameworkResult == finishFrameworkResult(result)
                  results == addFrameworkResult(call.results, group.key, frameworkResult)
              IN  calls' = [calls EXCEPT ![c] =
                    IF Len(result.rule_results) < result.total
                    THEN [call EXCEPT !.result = result,
                                      !.inFlight = (@ \ {ruleKey(rule)})
                                        \cup invoke(group.value, Len(result.rule_results) + 1)]
                    ELSE IF call.fw < Len(call.rulesByFramework)
                    THEN [call EXCEPT !.fw = @ + 1,
                                      !.result = newFrameworkResult(next.key, next.value),
                                      !.results = results,
                                      !.inFlight = (@ \ {ruleKey(rule)}) \cup invoke(next.value, 1)]
                    ELSE [call EXCEPT !.pc = "done", !.result = <<>>,
                                      !.results = finishResults(results),
                                      !.inFlight = @ \ {ruleKey(rule)}]]
  /\ UNCHANGED <<frameworks, rules, initialized, probe, thrown, clock, check, scan_results>>

\* a millisecond passes
tick ==
  /\ clock < MaxClock
  /\ clock' = clock + 1
  /\ UNCHANGED <<frameworks, rules, calls, initialized, probe, thrown, check, scan_results>>

-----------------------------------------------------------------------------
(* runComplianceCheck *)

\* the state of the service's check when runComplianceCheck has not been
\* called
IdleCheck ==
  [pc |-> "idle", uploadId |-> "", options |-> <<>>, uploadData |-> <<>>,
   store |-> "none", returned |-> <<>>, error |-> NoError]

\* runComplianceCheck(uploadId, options) up to its first await: either
\* `await this.initialize()` or `await this.getUploadData(uploadId)`
runComplianceCheck(uploadId, options) ==
  /\ check.pc = "idle"
  /\ check' = [check EXCEPT !.pc = "called", !.uploadId = uploadId, !.options = options]
  /\ UNCHANGED <<frameworks, rules, calls, initialized, probe, thrown, clock,
                 scan_results>>

\* what the database does at getUploadData: getDB() returns null, findOne
\* resolves with null, or findOne resolves with the upload
UploadUnavailable == [kind |-> "unavailable"]

UploadMissing == [kind |-> "missing"]

UploadFound(data) ==
  [kind |-> "found", upload |-> [data |-> data, source |-> "file_upload"]]

\* getUploadData settles and runComplianceCheck runs on: it rethrows the
\* error of getUploadData, throws for an upload that is not there, or goes
\* on to executeCompliance with the data of the upload
getUploadData(outcome) ==
  /\ check.pc = "called"
  /\ initialized
  /\ check' =
       CASE outcome.kind = "unavailable" ->
              [check EXCEPT !.pc = "thrown", !.error = <<"MongoDB not available">>]
         [] outcome.kind = "missing" ->
              [check EXCEPT !.pc = "thrown",
                            !.error = <<"Upload data not found: ", check.uploadId>>]
         [] outcome.kind = "found" ->
              [check EXCEPT !.pc = "loaded", !.uploadData = outcome.upload]
  /\ UNCHANGED <<frameworks, rules, calls, initialized, probe, thrown, clock,
                 scan_results>>

\* what the database does at storeComplianceResults: insertOne resolves,
\* insertOne rejects, or getDB() returns null
StoreOutcomes == {"stored", "insertFails", "unavailable"}

\* variant of storeComplianceResults: the catch block rethrows
storeComplianceResults_Rethrows(results, outcome) ==
  CASE outcome = "unavailable" -> [threw |-> FALSE, scan_results |-> scan_results]
    [] outcome = "insertFails" -> [threw |-> TRUE, scan_results |-> scan_results]
    [] outcome = "stored" ->
         [threw |-> FALSE,
          scan_results |-> Append(scan_results, results @@ [stored_at |-> clock])]

\* storeComplianceResults(results): whether it throws, and the collection
\* after it. Without a database it warns and returns; an insert that fails
\* is logged and not rethrown.
storeComplianceResults(results, outcome) ==
  CASE outcome = "unavailable" -> [threw |-> FALSE, scan_results |-> scan_results]
    [] outcome = "insertFails" -> [threw |-> FALSE, scan_results |-> scan_results]
    [] outcome = "stored" ->
         [threw |-> FALSE,
          scan_results |-> Append(scan_results, results @@ [stored_at |-> clock])]

\* the results of the engine with the metadata runComplianceCheck adds
withUploadMetadata(results, uploadId, uploadData) ==
  results @@ [upload_id |-> uploadId,
              upload_metadata |-> [source |-> uploadData.source]]

\* executeCompliance has returned and runComplianceCheck runs to its end:
\* it adds the metadata, stores the results, and returns them, or rethrows
\* what storeComplianceResults threw
completeComplianceCheck(outcome) ==
  /\ check.pc = "loaded"
  /\ calls[1].pc = "done"
  /\ LET results == withUploadMetadata(calls[1].results, check.uploadId, check.uploadData)
         store == storeComplianceResults(results, outcome)
     IN  /\ scan_results' = store.scan_results
         /\ check' = IF store.threw
                     THEN [check EXCEPT !.pc = "thrown", !.store = outcome,
                                        !.error = <<"insert failed">>]
                     ELSE [check EXCEPT !.pc = "returned", !.store = outcome,
                                        !.returned = results]
  /\ UNCHANGED <<frameworks, rules, calls, initialized, probe, thrown, clock>>

-----------------------------------------------------------------------------
(* The engine: registration at start, then evaluations *)

\* the options executeCompliance is called with: `severity` is the key the
\* code reads, `severities` a key it does not read
OptionSets ==
  [frameworks : {Absent, Arr({}), Arr({"A"}), Arr({"Z"})},
   categories : {Absent, Arr({"access"})},
   severity   : {Absent, Arr({"critical", "low"})},
   severities : {Absent, Arr({"critical"})}]

\* no scoring function is being applied on its own
NoProbe == [arg |-> <<>>, done |-> FALSE, out |-> 0]

\* after `new ComplianceService()` (with its `new RuleEngine()`)
Init ==
  /\ frameworks = <<>>
  /\ rules = <<>>
  /\ calls = [c \in CallIds |-> IdleCall]
  /\ initialized = FALSE
  /\ probe = NoProbe
  /\ thrown = NoError
  /\ clock = 0
  /\ check = IdleCheck
  /\ scan_results = <<>>

Next ==
  \/ \E framework \in FrameworkPool : registerFramework(framework)
  \/ \E rule \in RulePool : registerRule(rule)
  \/ \E inputData \in Snapshots, options \in OptionSets :
       executeCompliance(1, inputData, options)
  \/ predicateSettles(1)

Spec == Init /\ [][Next]_vars

-----------------------------------------------------------------------------
(* Registration alone, with codes that contain the separator of the rule key *)

\* frameworks offered to registerFramework: the code of the second is the
\* code of the first, the separator ':' and a further part
ColonFrameworkPool ==
  { [code |-> "A",   name |-> "Alpha",   version |-> "1"],
    [code |-> "A:b", name |-> "Alpha-b", version |-> "1"],
    [code |-> "B",   name |-> "Beta",    version |-> "1"] }

\* rules offered to registerRule: four (framework, code) pairs, of which the
\* first two give the same template string `${rule.framework}:${rule.code}`
ColonRulePool ==
  { [framework |-> "A", code |-> "b:c", category |-> "access",
     severity |-> "critical", evaluate |-> "p1"],
    [framework |-> "A:b", code |-> "c", category |-> "network",
     severity |-> "high", evaluate |-> "p2"],
    [framework |-> "A", code |-> "c", category |-> "access",
     severity |-> "medium", evaluate |-> "p1"],
    [framework |-> "B", code |-> "c", category |-> "network",
     severity |-> "low", evaluate |-> "p2"] }

NextCatalog ==
  \/ \E framework \in ColonFrameworkPool : registerFramework(framework)
  \/ \E rule \in ColonRulePool : registerRule(rule)

SpecCatalog == Init /\ [][NextCatalog]_vars

-----------------------------------------------------------------------------
(* ComplianceService over the built-in catalog *)

CIS_FRAMEWORK == [code |-> "CIS", name |-> "CIS Benchmarks", version |-> "8.0"]

\* the predicate of a built-in rule is named by the rule's code
CIS_RULES ==
  << [framework |-> "CIS", code |-> "CIS-1.1.1", category |-> "Filesystem Configuration",
      severity |-> "low", evaluate |-> "CIS-1.1.1"],
     [framework |-> "CIS", code |-> "CIS-2.2.1", category |-> "Services",
      severity |-> "medium", evaluate |-> "CIS-2.2.1"],
     [framework |-> "CIS", code |-> "CIS-5.2.1", category |-> "SSH Configuration",
      severity |-> "high", evaluate |-> "CIS-5.2.1"],
     [framework |-> "CIS", code |-> "CIS-5.2.4", category |-> "SSH Configuration",
      severity |-> "critical", evaluate |-> "CIS-5.2.4"],
     [framework |-> "CIS", code |-> "CIS-5.3.1", category |-> "Password Policy",
      severity |-> "high", evaluate |-> "CIS-5.3.1"],
     [framework |-> "CIS", code |-> "CIS-3.5.1", category |-> "Network Security",
      severity |-> "critical", evaluate |-> "CIS-3.5.1"] >>

ISO27001_FRAMEWORK == [code |-> "ISO27001", name |-> "ISO 27001", version |-> "2022"]

ISO27001_RULES ==
  << [framework |-> "ISO27001", code |-> "ISO-A.9.1.1", category |-> "Access Control",
      severity |-> "high", evaluate |-> "ISO-A.9.1.1"],
     [framework |-> "ISO27001", code |-> "ISO-A.12.4.1", category |-> "Logging and Monitoring",
      severity |-> "high", evaluate |-> "ISO-A.12.4.1"],
     [framework |-> "ISO27001", code |-> "ISO-A.13.1.1", category |-> "Network Security",
      severity |-> "critical", evaluate |-> "ISO-A.13.1.1"],
     [framework |-> "ISO27001", code |-> "ISO-A.8.2.1", category |-> "Information Security",
      severity |-> "medium", evaluate |-> "ISO-A.8.2.1"],
     [framework |-> "ISO27001", code |-> "ISO-A.12.6.1", category |-> "Vulnerability Management",
      severity |-> "high", evaluate |-> "ISO-A.12.6.1"] >>

RECURSIVE RegisterAll(_, _)
\* rules.forEach(rule => this.ruleEngine.registerRule(rule)) on the Map m
RegisterAll(m, rs) ==
  IF rs = <<>> THEN m
  ELSE RegisterAll(MapSet(m, ruleKey(Head(rs)), Head(rs)), Tail(rs))

\* ComplianceService.initialize(): both frameworks, then the CIS rules, then
\* the ISO 27001 rules (every rule's framework is registered by then, so no
\* registerRule throws)
initialize ==
  /\ frameworks' = MapSet(MapSet(frameworks, CIS_FRAMEWORK.code, CIS_FRAMEWORK),
                          ISO27001_FRAMEWORK.code, ISO27001_FRAMEWORK)
  /\ rules' = RegisterAll(RegisterAll(rules, CIS_RULES), ISO27001_RULES)
  /\ initialized' = TRUE
  /\ thrown' = NoError
  /\ UNCHANGED <<calls, probe, clock, check, scan_results>>

\* RuleEngine.getFrameworks()
getFrameworks == MapValues(frameworks)

\* a falsy argument of getRules: null, the default, or the empty string
NoCode == ""

\* RuleEngine.getRules(frameworkCode)
getRules(frameworkCode) ==
  IF frameworkCode = NoCode THEN MapValues(rules)
  ELSE SelectSeq(MapValues(rules), LAMBDA rule : rule.framework = frameworkCode)

\* ComplianceService.getAvailableFrameworks()
getAvailableFrameworks ==
  IF ~initialized THEN <<>>
  ELSE [i \in 1..Len(getFrameworks) |->
          [code |-> getFrameworks[i].code,
           name |-> getFrameworks[i].name,
           version |-> getFrameworks[i].version,
           rules_count |-> Len(getRules(getFrameworks[i].code))]]

RECURSIVE SumRulesCount(_)
\* frameworks.reduce((sum, f) => sum + f.rules_count, 0)
SumRulesCount(fws) ==
  IF fws = <<>> THEN 0 ELSE Head(fws).rules_count + SumRulesCount(Tail(fws))

\* the body GET /frameworks answers with
frameworksListing ==
  [frameworks |-> getAvailableFrameworks,
   total_frameworks |-> Len(getAvailableFrameworks),
   total_rules |-> SumRulesCount(getAvailableFrameworks)]

BuiltinCodes == {r.code : r \in Range(CIS_RULES) \cup Range(ISO27001_RULES)}

\* the snapshot on which the predicates of `throwing` reject, those of
\* `failing` resolve with passed = false, and the others resolve with
\* passed = true
SnapshotOf(failing, throwing) ==
  [p \in BuiltinCodes |->
     IF p \in throwing THEN Reject("boom")
     ELSE IF p \in failing THEN Resolve(FALSE, "gap")
     ELSE Resolve(TRUE, "ok")]

ServiceSnapshots ==
  { SnapshotOf(failing, throwing) :
      failing \in { {}, {"CIS-5.2.4", "CIS-3.5.1", "ISO-A.13.1.1"},
                    {r.code : r \in Range(CIS_RULES)}, BuiltinCodes },
      throwing \in { {}, {"ISO-A.8.2.1"}, {"CIS-1.1.1", "CIS-5.2.4"} } }

ServiceOptionSets ==
  [frameworks : {Absent, Arr({"CIS"}), Arr({"ISO27001", "NIST"})},
   categories : {Absent, Arr({"SSH Configuration", "Network Security"})},
   severity   : {Absent, Arr({"critical"})},
   severities : {Absent, Arr({"critical"})}]

\* the service starts an evaluation only once initialized (runComplianceCheck
\* and runSampleComplianceCheck initialize first)
NextService ==
  \/ initialize
  \/ \E inputData \in ServiceSnapshots, options \in ServiceOptionSets :
       initialized /\ executeCompliance(1, inputData, options)
  \/ predicateSettles(1)

SpecService == Init /\ [][NextService]_vars

-----------------------------------------------------------------------------
(* Two evaluations over the built-in catalog, interleaved where they await *)

ConcurrentSnapshots ==
  { SnapshotOf({}, {}),
    SnapshotOf({"CIS-5.2.4"}, {"CIS-3.5.1"}) }

\* criteria that select the three critical rules of both frameworks, the two
\* SSH rules of CIS, and nothing
ConcurrentOptionSets ==
  { [frameworks |-> Absent, categories |-> Absent,
     severity |-> Arr({"critical"}), severities |-> Absent],
    [frameworks |-> Arr({"CIS"}), categories |-> Arr({"SSH Configuration"}),
     severity |-> Absent, severities |-> Absent],
    [frameworks |-> Arr({"NIST"}), categories |-> Absent,
     severity |-> Absent, severities |-> Absent] }

\* a call may be made while another is suspended at an await, and a suspended
\* call resumes in any order with the others
NextConcurrent ==
  \/ initialize
  \/ \E c \in CallIds, inputData \in ConcurrentSnapshots, options \in ConcurrentOptionSets :
       initialized /\ executeCompliance(c, inputData, options)
  \/ \E c \in CallIds : predicateSettles(c)
  \/ tick

SpecConcurrent == Init /\ [][NextConcurrent]_vars

-----------------------------------------------------------------------------
(* One evaluation over the built-in catalog, with predicates that may hang *)

\* snapshots on which every predicate settles, and snapshots on which the
\* predicate of a critical rule of CIS, or of ISO 27001, never does
LiveSnapshots ==
  LET settling == SnapshotOf({"CIS-5.2.4"}, {"CIS-3.5.1"})
  IN  { SnapshotOf({}, {}), settling,
        [settling EXCEPT !["CIS-5.2.4"] = Pending],
        [settling EXCEPT !["ISO-A.13.1.1"] = Pending] }

\* the criteria of ConcurrentOptionSets, no criteria (all eleven rules), and
\* the five rules of ISO 27001
LiveOptionSets ==
  ConcurrentOptionSets \cup
    { [frameworks |-> Absent, categories |-> Absent,
       severity |-> Absent, severities |-> Absent],
      [frameworks |-> Arr({"ISO27001"}), categories |-> Absent,
       severity |-> Absent, severities |-> Absent] }

NextLive ==
  \/ initialize
  \/ \E inputData \in LiveSnapshots, options \in LiveOptionSets :
       initialized /\ executeCompliance(1, inputData, options)
  \/ predicateSettles(1)

\* the continuation of an await runs once the awaited promise has settled:
\* the event loop leaves no settled promise unhandled
SpecLive == Init /\ [][NextLive]_vars /\ WF_vars(predicateSettles(1))

-----------------------------------------------------------------------------
(* One compliance check of the service, with a database that may fail *)

UploadOutcomes ==
  {UploadUnavailable, UploadMissing} \cup {UploadFound(data) : data \in ConcurrentSnapshots}

\* runComplianceCheck initializes the service if it is not, loads the
\* upload, runs the engine on its data, and stores and returns the results
NextCheck ==
  \/ \E options \in ConcurrentOptionSets : runComplianceCheck("upload-1", options)
  \/ check.pc = "called" /\ ~initialized /\ initialize
  \/ \E outcome \in UploadOutcomes : getUploadData(outcome)
  \/ check.pc = "loaded" /\ executeCompliance(1, check.uploadData.data, check.options)
  \/ predicateSettles(1)
  \/ \E outcome \in StoreOutcomes : completeComplianceCheck(outcome)
  \/ tick

SpecCheck == Init /\ [][NextCheck]_vars

-----------------------------------------------------------------------------
(* A scoring function applied on its own to a list of outcomes *)

Statuses == {"PASS", "FAIL", "SKIP", "ERROR"}

\* the fields of an outcome that the scoring functions read
Outcomes == [status : Statuses, severity : Severities \cup {Undefined}]

OutcomeLists == UNION {[1..n -> Outcomes] : n \in 0..MaxOutcomes}

\* a framework result as it is when executeFrameworkRules scores it: total
\* and skipped agree with its list of outcomes
ResultOf(rule_results) ==
  [total |-> Len(rule_results),
   skipped |-> Cardinality({i \in 1..Len(rule_results) : rule_results[i].status = "SKIP"}),
   rule_results |-> rule_results]

InitScore ==
  /\ frameworks = <<>>
  /\ rules = <<>>
  /\ calls = [c \in CallIds |-> IdleCall]
  /\ initialized = FALSE
  /\ probe \in {[arg |-> ResultOf(l), done |-> FALSE, out |-> 0] : l \in OutcomeLists}
  /\ thrown = NoError
  /\ clock = 0
  /\ check = IdleCheck
  /\ scan_results = <<>>

applyFrameworkRiskScore ==
  /\ ~probe.done
  /\ probe' = [probe EXCEPT !.done = TRUE,
                            !.out = calculateFrameworkRiskScore(probe.arg)]
  /\ UNCHANGED <<frameworks, rules, calls, initialized, thrown, clock, check, scan_results>>

NextScore == applyFrameworkRiskScore

SpecScore == InitScore /\ [][NextScore]_vars

-----------------------------------------------------------------------------
(* Report enhancer: enhanceResults applied to a stored result *)

\* variant of getRiskLevel: `>` in place of `>=`
getRiskLevel_Strict(score) ==
  IF score > 70 THEN "High" ELSE IF score > 40 THEN "Medium" ELSE "Low"

getRiskLevel(score) ==
  IF score >= 70 THEN "High" ELSE IF score >= 40 THEN "Medium" ELSE "Low"

\* analysis.framework_risks[framework], for data = framework_results[framework]
frameworkRisk(data) ==
  [risk_level |-> getRiskLevel(data.risk_score),
   risk_score |-> data.risk_score,
   compliance_percentage |-> data.compliance_percentage,
   critical_failures |->
     Cardinality({i \in 1..Len(data.rule_results) :
                    /\ data.rule_results[i].status = "FAIL"
                    /\ data.rule_results[i].severity = "critical"})]

\* analysis.severity_distribution[rule.severity]++ : a key of the object is
\* incremented, a missing key is set to undefined + 1, which is NaN
countSeverity(distribution, rule) ==
  IF rule.severity \in DOMAIN distribution
  THEN [distribution EXCEPT ![rule.severity] = IF @ = NaN THEN NaN ELSE @ + 1]
  ELSE distribution @@ (rule.severity :> NaN)

RECURSIVE severityDistribution(_, _)
\* the forEach over detailed_results, for what it does to
\* severity_distribution: the statement that counts is outside the
\* `if (rule.status === 'FAIL')` block, so it runs for every outcome
severityDistribution(distribution, detailed_results) ==
  IF detailed_results = <<>> THEN distribution
  ELSE severityDistribution(countSeverity(distribution, Head(detailed_results)),
                            Tail(detailed_results))

\* the rule codes of a list of outcomes
CodesOfFailed(outcomes) == [i \in 1..Len(outcomes) |-> outcomes[i].rule_code]

\* the object severityWeight of the two comparators: it has the four keys
\* and no default, and is read only for outcomes whose severity is a key
\* (see enhanceResults for the others)
severityWeight(severity) ==
  CASE severity = "critical" -> 4
    [] severity = "high"     -> 3
    [] severity = "medium"   -> 2
    [] severity = "low"      -> 1

\* severityWeight[rule.severity] || 1
calculateRuleImpact(rule) ==
  IF rule.severity \in Severities THEN severityWeight(rule.severity) ELSE 1

\* severityImpact[rule.severity] || 1
assessBusinessImpact(rule) ==
  IF rule.severity \in Severities THEN severityWeight(rule.severity) ELSE 1

calculatePriorityLevel(rule) ==
  IF rule.severity = "critical" THEN "Immediate"
  ELSE IF rule.severity = "high" THEN "High"
  ELSE IF rule.severity = "medium" THEN "Medium"
  ELSE "Low"

RECURSIVE InsertDescending(_, _)
\* the entry x put behind every entry of `sorted` whose weight is at least
\* its own
InsertDescending(sorted, x) ==
  IF sorted = <<>> THEN <<x>>
  ELSE IF Head(sorted).weight >= x.weight
       THEN <<Head(sorted)>> \o InsertDescending(Tail(sorted), x)
       ELSE <<x>> \o sorted

RECURSIVE SortEntriesDescending(_)
SortEntriesDescending(entries) ==
  IF entries = <<>> THEN <<>>
  ELSE InsertDescending(SortEntriesDescending(SubSeq(entries, 1, Len(entries) - 1)),
                        entries[Len(entries)])

\* Array.prototype.sort with the comparator (a, b) => weight(b) - weight(a),
\* weights[i] being the weight of s[i]: the sort is stable, elements of
\* equal weight keep their order
SortDescending(s, weights) ==
  LET sorted == SortEntriesDescending([i \in 1..Len(s) |->
                                         [weight |-> weights[i], item |-> s[i]]])
  IN  [i \in 1..Len(sorted) |-> sorted[i].item]

\* Array.prototype.slice(0, n)
Slice(s, n) == SubSeq(s, 1, IF Len(s) < n THEN Len(s) ELSE n)

\* variant of topRisks: the failed outcomes are cut to five without being
\* sorted
topRisks_Unsorted(results) ==
  LET failed == SelectSeq(results.detailed_results, LAMBDA rule : rule.status = "FAIL")
      top    == Slice(failed, 5)
  IN  [i \in 1..Len(top) |->
         [rule_code |-> top[i].rule_code,
          severity  |-> top[i].severity,
          impact    |-> calculateRuleImpact(top[i])]]

\* analysis.top_risks: filter, sort, slice(0, 5), map
topRisks(results) ==
  LET failed == SelectSeq(results.detailed_results, LAMBDA rule : rule.status = "FAIL")
      sorted == SortDescending(failed, [i \in 1..Len(failed) |-> severityWeight(failed[i].severity)])
      top    == Slice(sorted, 5)
  IN  [i \in 1..Len(top) |->
         [rule_code |-> top[i].rule_code,
          severity  |-> top[i].severity,
          impact    |-> calculateRuleImpact(top[i])]]

\* calculateRiskAnalysis, for overall_risk_level, framework_risks,
\* severity_distribution and top_risks (category_risks and risk_factors are
\* further fields computed from the same results)
calculateRiskAnalysis(results) ==
  [overall_risk_level |-> getRiskLevel(results.overall_risk_score),
   framework_risks |->
     [i \in 1..Len(results.framework_results) |->
        [key |-> results.framework_results[i].key,
         value |-> frameworkRisk(results.framework_results[i].value)]],
   severity_distribution |->
     severityDistribution([s \in Severities |-> 0], results.detailed_results),
   top_risks |-> topRisks(results)]

\* categories[rule.severity].push(...) for every failed outcome: the object
\* has the four keys, so a failed outcome of another severity makes the
\* statement throw a TypeError
categorizeThrows(results) ==
  \E i \in 1..Len(results.detailed_results) :
    /\ results.detailed_results[i].status = "FAIL"
    /\ results.detailed_results[i].severity \notin Severities

\* the rule codes of the failed outcomes, by severity
categorizeFindingsBySeverity(results) ==
  [s \in Severities |->
     CodesOfFailed(SelectSeq(results.detailed_results,
                             LAMBDA rule : rule.status = "FAIL" /\ rule.severity = s))]

\* the entry generateRemediationPriority builds for one outcome
priorityOf(rule) ==
  [priority_level  |-> calculatePriorityLevel(rule),
   rule_code       |-> rule.rule_code,
   severity        |-> rule.severity,
   business_impact |-> assessBusinessImpact(rule)]

\* the weight the comparator of generateRemediationPriority gives an entry
priorityWeight(priority) == severityWeight(priority.severity) * priority.business_impact

\* variant of generateRemediationPriority: the entries are left in the order
\* of the outcomes
generateRemediationPriority_Unsorted(results) ==
  LET failed == SelectSeq(results.detailed_results, LAMBDA rule : rule.status = "FAIL")
  IN  [i \in 1..Len(failed) |-> priorityOf(failed[i])]

generateRemediationPriority(results) ==
  LET failed == SelectSeq(results.detailed_results, LAMBDA rule : rule.status = "FAIL")
      priorities == [i \in 1..Len(failed) |-> priorityOf(failed[i])]
  IN  SortDescending(priorities, [i \in 1..Len(priorities) |-> priorityWeight(priorities[i])])

\* enhanceResults, for risk_analysis, findings_by_severity and
\* remediation_priority (compliance_trends and executive_summary are further
\* fields); the three are computed in this order, and the second throws for
\* a failed outcome whose severity is none of the four, so that no enhanced
\* result is returned
enhanceResults(results) ==
  IF categorizeThrows(results)
  THEN [threw |-> TRUE]
  ELSE [threw |-> FALSE,
        risk_analysis |-> calculateRiskAnalysis(results),
        findings_by_severity |-> categorizeFindingsBySeverity(results),
        remediation_priority |-> generateRemediationPriority(results)]

\* the outcomes of a stored result, by the fields the enhancer reads besides
\* rule_code
ReportOutcomes ==
  [status : {"PASS", "FAIL", "ERROR"}, severity : Severities \cup {Undefined}]

ReportOutcomeLists == UNION {[1..n -> ReportOutcomes] : n \in 0..MaxFindings}

\* lists of failed outcomes long enough for slice(0, 5) to cut, on their own
\* and between an outcome that threw and an outcome that passed
FailedLists ==
  LET failures == UNION {[1..n -> [status : {"FAIL"}, severity : Severities]] :
                           n \in 0..MaxFailures}
  IN  failures \cup
      {<<[status |-> "ERROR", severity |-> "critical"]>> \o l
         \o <<[status |-> "PASS", severity |-> "critical"]>> : l \in failures}

\* scores at and next to the thresholds of getRiskLevel and at the ends of
\* the range, as <<overall_risk_score, risk_score of CIS, risk_score of
\* ISO27001>>; every integer of 0..100 is the score of some result, and
\* calculateRiskAnalysis reads each score on its own
ReportScores ==
  { <<70, 40, 39>>, <<69, 70, 40>>, <<40, 39, 69>>, <<39, 69, 70>>,
    <<0, 100, 0>>, <<100, 0, 100>> }

\* the outcomes with the rule codes R1, R2, ... in their order
Coded(outcomes) ==
  [i \in 1..Len(outcomes) |->
     [rule_code |-> "R" \o toString36(i),
      status    |-> outcomes[i].status,
      severity  |-> outcomes[i].severity]]

\* a stored result of two frameworks: CIS with the outcomes `findings` (left
\* out when there are none) and ISO27001 with one passed rule of severity
\* high
ReportInput(findings, scores) ==
  LET passedHigh == [status |-> "PASS", severity |-> "high"]
      detailed == Coded(findings \o <<passedHigh>>)
      cis == [key |-> "CIS",
              value |-> [risk_score |-> scores[2],
                         compliance_percentage |-> 100 - scores[2],
                         rule_results |-> SubSeq(detailed, 1, Len(findings))]]
      iso == [key |-> "ISO27001",
              value |-> [risk_score |-> scores[3],
                         compliance_percentage |-> 100 - scores[3],
                         rule_results |-> <<detailed[Len(detailed)]>>]]
  IN  [overall_risk_score |-> scores[1],
       framework_results |-> IF findings = <<>> THEN <<iso>> ELSE <<cis, iso>>,
       detailed_results |-> detailed]

InitReport ==
  /\ frameworks = <<>>
  /\ rules = <<>>
  /\ calls = [c \in CallIds |-> IdleCall]
  /\ initialized = FALSE
  /\ probe \in {[arg |-> ReportInput(l, sc), done |-> FALSE, out |-> 0] :
                  l \in ReportOutcomeLists, sc \in ReportScores}
             \cup
               {[arg |-> ReportInput(l, <<70, 40, 39>>), done |-> FALSE, out |-> 0] :
                  l \in FailedLists}
  /\ thrown = NoError
  /\ clock = 0
  /\ check = IdleCheck
  /\ scan_results = <<>>

applyEnhanceResults ==
  /\ ~probe.done
  /\ probe' = [probe EXCEPT !.done = TRUE, !.out = enhanceResults(probe.arg)]
  /\ UNCHANGED <<frameworks, rules, calls, initialized, thrown, clock, check, scan_results>>

NextReport == applyEnhanceResults

SpecReport == InitReport /\ [][NextReport]_vars

-----------------------------------------------------------------------------
(* Properties: vocabulary *)

Started(c) == calls[c].pc # "idle"

Finished(c) == calls[c].pc = "done"

\* the message holds `part` among the parts it was built from
Contains(message, part) == \E i \in 1..Len(message) : message[i] = part

\* how many outcomes of a list have their status in S
CountStatus(outcomes, S) ==
  Cardinality({i \in 1..Len(outcomes) : outcomes[i].status \in S})

\* a filter of the criteria constrains nothing when absent or empty, and
\* otherwise admits the listed values
Admits(filter, value) == ~filter.present \/ filter.items = {} \/ value \in filter.items

\* the catalog rules that satisfy every filter the engine reads from `options`
Matching(options) ==
  {r \in Range(MapValues(rules)) :
     /\ Admits(options.frameworks, r.framework)
     /\ Admits(options.categories, r.category)
     /\ Admits(options.severity, r.severity)}

\* the rules call c selected, as grouped for execution
SelectedBy(c) ==
  UNION {Range(calls[c].rulesByFramework[i].value) :
           i \in 1..Len(calls[c].rulesByFramework)}

\* the status the engine is to give a rule on a snapshot
ExpectedStatus(rule, inputData) ==
  LET e == inputData[rule.evaluate]
  IN  IF e.kind = "reject" THEN "ERROR" ELSE IF e.passed THEN "PASS" ELSE "FAIL"

\* k is x / y rounded to the nearest integer, a tie rounded up (y > 0)
IsRoundHalfUp(k, x, y) == 2 * y * k - y <= 2 * x /\ 2 * x < 2 * y * k + y

-----------------------------------------------------------------------------
(* C1 *)

\* C1: in a returned result, every rule whose predicate rejected has an
\* outcome with status ERROR whose message contains the error's message, and
\* that outcome is counted as failed, not as skipped: each framework's
\* `failed` and the overall `failed_rules` count the FAIL and the ERROR
\* outcomes, and `skipped` counts neither.
C1_ErrorCountsAsFailed ==
  \A c \in CallIds : Finished(c) =>
    LET call == calls[c]
        res == call.results
    IN  /\ \A i \in 1..Len(call.rulesByFramework) :
             LET group == call.rulesByFramework[i]
                 fr == MapGet(res.framework_results, group.key)
             IN  /\ \A j \in 1..Len(group.value) :
                       LET e == call.inputData[group.value[j].evaluate]
                       IN  e.kind = "reject" =>
                             /\ fr.rule_results[j].status = "ERROR"
                             /\ Contains(fr.rule_results[j].message, e.message)
                 /\ fr.failed = CountStatus(fr.rule_results, {"FAIL", "ERROR"})
                 /\ fr.skipped = CountStatus(fr.rule_results, {"SKIP"})
        /\ res.failed_rules = CountStatus(res.detailed_results, {"FAIL", "ERROR"})
        /\ res.skipped_rules = CountStatus(res.detailed_results, {"SKIP"})

\* what the code does for C1: the ERROR outcome is produced with the error's
\* message, but no counter counts it
C1_ErrorOutcomeUncounted ==
  \A c \in CallIds : Finished(c) =>
    LET call == calls[c]
        res == call.results
    IN  /\ \A i \in 1..Len(call.rulesByFramework) :
             LET group == call.rulesByFramework[i]
                 fr == MapGet(res.framework_results, group.key)
             IN  /\ \A j \in 1..Len(group.value) :
                       LET e == call.inputData[group.value[j].evaluate]
                       IN  e.kind = "reject" =>
                             /\ fr.rule_results[j].status = "ERROR"
                             /\ Contains(fr.rule_results[j].message, e.message)
                 /\ fr.failed = CountStatus(fr.rule_results, {"FAIL"})
                 /\ fr.skipped = 0
        /\ res.failed_rules = CountStatus(res.detailed_results, {"FAIL"})
        /\ res.skipped_rules = 0

-----------------------------------------------------------------------------
(* C2 *)

\* C2: whatever subset of the selected predicates rejects, the call returns
\* a result in which every selected rule has exactly one outcome (in its
\* framework's result and in detailed_results), a rejecting rule's outcome
\* is ERROR and every other rule's outcome is the PASS or FAIL its predicate
\* returned.
C2_OneOutcomePerRule ==
  \A c \in CallIds : Finished(c) =>
    LET call == calls[c]
        res == call.results
        selected == Matching(call.options)
    IN  /\ Len(res.detailed_results) = Cardinality(selected)
        /\ \A r \in selected :
             /\ MapHas(res.framework_results, r.framework)
             /\ LET rr == MapGet(res.framework_results, r.framework).rule_results
                    at == {j \in 1..Len(rr) : rr[j].rule_code = r.code}
                IN  /\ Cardinality(at) = 1
                    /\ \A j \in at : rr[j].status = ExpectedStatus(r, call.inputData)
        /\ \A i \in 1..Len(res.framework_results) :
             Len(res.framework_results[i].value.rule_results)
               = Cardinality({r \in selected : r.framework = res.framework_results[i].key})

\* C2 witness: a returned result of three rules of which some but not all
\* rejected
C2_Witness ==
  \E c \in CallIds :
    /\ Finished(c)
    /\ calls[c].results.total_rules = 3
    /\ CountStatus(calls[c].results.detailed_results, {"ERROR"}) \in {1, 2}
    /\ CountStatus(calls[c].results.detailed_results, {"PASS"}) >= 1

-----------------------------------------------------------------------------
(* C3 *)

\* C3: the rules a call selects are exactly the catalog rules that satisfy
\* every non-empty filter (frameworks, categories, severity); total_rules is
\* their number, and with no filter at all it is the size of the catalog.
C3_ExactSelection ==
  \A c \in CallIds : Started(c) =>
    LET call == calls[c]
        o == call.options
    IN  /\ SelectedBy(c) = Matching(o)
        /\ call.results.total_rules = Cardinality(Matching(o))
        /\ (\A f \in {o.frameworks, o.categories, o.severity} : ~f.present \/ f.items = {})
             => call.results.total_rules = Len(rules)

\* C3 witness: all three filters are set, some catalog rule passes them all
\* and some other is rejected by one of them
C3_Witness ==
  \E c \in CallIds :
    /\ Started(c)
    /\ \A f \in {calls[c].options.frameworks, calls[c].options.categories,
                 calls[c].options.severity} : f.present /\ f.items # {}
    /\ SelectedBy(c) # {}
    /\ Cardinality(SelectedBy(c)) < Len(rules)

\* C3 witness of the empty criteria: a call without filters over three rules
C3_WitnessEmptyCriteria ==
  \E c \in CallIds :
    /\ Started(c)
    /\ \A f \in {calls[c].options.frameworks, calls[c].options.categories,
                 calls[c].options.severity} : ~f.present
    /\ calls[c].results.total_rules = 3

-----------------------------------------------------------------------------
(* C5 *)

\* C5: a call whose filters match no rule returns at once, with
\* total_rules = 0, all counters 0, overall_risk_score = 0, no framework
\* result and no outcome.
C5_EmptySelection ==
  \A c \in CallIds : (Started(c) /\ Matching(calls[c].options) = {}) =>
    /\ Finished(c)
    /\ calls[c].results.total_rules = 0
    /\ calls[c].results.passed_rules = 0
    /\ calls[c].results.failed_rules = 0
    /\ calls[c].results.skipped_rules = 0
    /\ calls[c].results.overall_risk_score = 0
    /\ calls[c].results.frameworks_tested = <<>>
    /\ calls[c].results.framework_results = <<>>
    /\ calls[c].results.detailed_results = <<>>

\* C5 witness: a call over a non-empty catalog whose frameworks filter names
\* only an unregistered framework
C5_Witness ==
  \E c \in CallIds :
    /\ Finished(c)
    /\ rules # <<>>
    /\ calls[c].options.frameworks = Arr({"Z"})
    /\ ~MapHas(frameworks, "Z")
    /\ calls[c].results.total_rules = 0

-----------------------------------------------------------------------------
(* C4 *)

\* the catalog holds 3 critical rules and 8 rules of other severities
ThreeCriticalOfEleven ==
  /\ Len(rules) = 11
  /\ Cardinality({i \in 1..Len(rules) : rules[i].value.severity = "critical"}) = 3

\* C4 as stated: criteria {severities: ["critical"]} against a catalog of 3
\* critical and 8 other rules give total_rules = 3.
C4_SeveritiesKey ==
  \A c \in CallIds :
    ( /\ Started(c)
      /\ ThreeCriticalOfEleven
      /\ calls[c].options = [frameworks |-> Absent, categories |-> Absent,
                             severity |-> Absent, severities |-> Arr({"critical"})] )
    => calls[c].results.total_rules = 3

\* C4 amended: criteria {severity: ["critical"]}, the key executeCompliance
\* reads, against a catalog of 3 critical and 8 other rules give
\* total_rules = 3.
C4_SeverityKey ==
  \A c \in CallIds :
    ( /\ Started(c)
      /\ ThreeCriticalOfEleven
      /\ calls[c].options = [frameworks |-> Absent, categories |-> Absent,
                             severity |-> Arr({"critical"}), severities |-> Absent] )
    => calls[c].results.total_rules = 3

\* C4 witness: such a call has returned, with its three outcomes
C4_Witness ==
  \E c \in CallIds :
    /\ Finished(c)
    /\ ThreeCriticalOfEleven
    /\ calls[c].options = [frameworks |-> Absent, categories |-> Absent,
                           severity |-> Arr({"critical"}), severities |-> Absent]
    /\ Len(calls[c].results.detailed_results) = 3

-----------------------------------------------------------------------------
(* C6 *)

\* C6: every framework result's compliance_percentage and risk_score, and a
\* returned result's overall_risk_score, are integers of 0..100, and are 0
\* when total minus skipped is 0.
C6_ScoresInRange ==
  \A c \in CallIds : Started(c) =>
    LET res == calls[c].results
    IN  /\ \A i \in 1..Len(res.framework_results) :
             LET fr == res.framework_results[i].value
             IN  /\ fr.compliance_percentage \in 0..100
                 /\ fr.risk_score \in 0..100
                 /\ fr.total - fr.skipped = 0 =>
                      fr.compliance_percentage = 0 /\ fr.risk_score = 0
        /\ Finished(c) =>
             /\ res.overall_risk_score \in 0..100
             /\ res.total_rules - res.skipped_rules = 0 => res.overall_risk_score = 0

\* C6 witness: a returned result with a framework of three rules whose
\* scores lie strictly inside the range
C6_Witness ==
  \E c \in CallIds :
    /\ Finished(c)
    /\ \E i \in 1..Len(calls[c].results.framework_results) :
         LET fr == calls[c].results.framework_results[i].value
         IN  /\ fr.compliance_percentage \in 1..99
             /\ fr.risk_score \in 1..99
             /\ fr.total = 3

\* C6, the zero denominator: a returned result with total - skipped = 0
C6_WitnessZeroDenominator ==
  \E c \in CallIds :
    /\ Finished(c)
    /\ rules # <<>>
    /\ calls[c].results.total_rules - calls[c].results.skipped_rules = 0

-----------------------------------------------------------------------------
(* C7 *)

\* the weight table of the claim
ClaimedWeight(severity) ==
  IF severity = "critical" THEN 4
  ELSE IF severity = "high" THEN 3
  ELSE IF severity = "medium" THEN 2
  ELSE 1

RECURSIVE SumTo(_, _)
\* f[1] + ... + f[n]
SumTo(f, n) == IF n = 0 THEN 0 ELSE f[n] + SumTo(f, n - 1)

\* the sum of the claimed weights of the outcomes whose status is in S
WeightOf(outcomes, S) ==
  SumTo([i \in 1..Len(outcomes) |->
           IF outcomes[i].status \in S THEN ClaimedWeight(outcomes[i].severity) ELSE 0],
        Len(outcomes))

C7_WitnessSkip ==
  /\ probe.done
  /\ LET rr == probe.arg.rule_results
     IN  /\ \E i, j \in 1..Len(rr) :
               /\ rr[i].status = "SKIP" /\ rr[i].severity = "critical"
               /\ rr[j].status = "FAIL" /\ rr[j].severity = "low"
         /\ probe.out \in 1..99

-----------------------------------------------------------------------------
(* C8 *)

-----------------------------------------------------------------------------
(* C9 *)

-----------------------------------------------------------------------------
(* C10 *)

\* the catalog is framework `a` with one critical rule and framework `b`
\* with one low rule; on call c's snapshot the first fails and the second
\* passes, and the call has no filter
TwoFrameworkScenario(c, a, b) ==
  /\ Len(rules) = 2
  /\ Len(frameworks) = 2
  /\ \E ra, rb \in Range(MapValues(rules)) :
       /\ ra.framework = a /\ ra.severity = "critical"
       /\ rb.framework = b /\ rb.severity = "low"
       /\ calls[c].inputData[ra.evaluate] = Resolve(FALSE, "gap")
       /\ calls[c].inputData[rb.evaluate] = Resolve(TRUE, "ok")
  /\ calls[c].options = [frameworks |-> Absent, categories |-> Absent,
                         severity |-> Absent, severities |-> Absent]

\* C10: with framework A holding one critical rule that fails and B one low
\* rule that passes, a call with empty criteria returns overall_risk_score
\* 50, risk_score 100 for A and 0 for B.
C10_TwoFrameworks ==
  \A c \in CallIds : (Finished(c) /\ TwoFrameworkScenario(c, "A", "B")) =>
    LET res == calls[c].results
    IN  /\ res.overall_risk_score = 50
        /\ MapGet(res.framework_results, "A").risk_score = 100
        /\ MapGet(res.framework_results, "B").risk_score = 0

\* C10 witness: the call of the scenario has returned
C10_Witness ==
  \E c \in CallIds :
    /\ Finished(c)
    /\ TwoFrameworkScenario(c, "A", "B")
    /\ calls[c].results.total_rules = 2

-----------------------------------------------------------------------------
(* C11 *)

\* the list of outcomes with the severity of its i-th outcome replaced by s
WithSeverity(rule_results, i, s) == [rule_results EXCEPT ![i].severity = s]

\* C11: for every list of outcomes and every FAIL outcome of severity low in
\* it, the list with that outcome's severity changed to critical, and nothing
\* else changed, has a risk_score that is not smaller.
C11_RaisingSeverity ==
  probe.done =>
    LET rr == probe.arg.rule_results
    IN  \A i \in 1..Len(rr) :
          (rr[i].status = "FAIL" /\ rr[i].severity = "low") =>
            calculateFrameworkRiskScore(ResultOf(WithSeverity(rr, i, "critical")))
              >= probe.out

\* C11 witness: a scored list of three outcomes, one of them FAIL and low,
\* another one counted and not failing, whose score strictly grows with the
\* change
C11_Witness ==
  /\ probe.done
  /\ LET rr == probe.arg.rule_results
     IN  /\ Len(rr) = 3
         /\ \E i, j \in 1..Len(rr) :
              /\ rr[i].status = "FAIL" /\ rr[i].severity = "low"
              /\ rr[j].status \in {"PASS", "ERROR"}
              /\ calculateFrameworkRiskScore(ResultOf(WithSeverity(rr, i, "critical")))
                   > probe.out
         /\ probe.out > 0

-----------------------------------------------------------------------------
(* C12 *)

\* C12: every registerRule call for a rule whose framework code has no
\* registered framework throws, and leaves the catalog as it was: the rules
\* Map and the frameworks Map are the same after the call as before it.
C12_UnknownFramework ==
  [][\A rule \in RulePool :
       (registerRule(rule) /\ ~MapHas(frameworks, rule.framework)) =>
         /\ thrown' # NoError
         /\ Contains(thrown', rule.framework)
         /\ rules' = rules
         /\ frameworks' = frameworks]_vars

\* C12 witness: a registerRule call has thrown while a framework and a rule
\* were registered
C12_Witness ==
  /\ thrown # NoError
  /\ frameworks # <<>>
  /\ rules # <<>>

-----------------------------------------------------------------------------
(* C13 *)

\* the (framework, code) pair of a rule
Pair(rule) == <<rule.framework, rule.code>>

\* one framework per code, one rule per (framework, code) pair, and every
\* rule's framework is registered
CatalogWellFormed ==
  /\ \A i, j \in 1..Len(frameworks) :
       frameworks[i].value.code = frameworks[j].value.code => i = j
  /\ \A i, j \in 1..Len(rules) :
       Pair(rules[i].value) = Pair(rules[j].value) => i = j
  /\ \A i \in 1..Len(rules) :
       \E j \in 1..Len(frameworks) :
         frameworks[j].value.code = rules[i].value.framework

\* a registration that succeeds leaves its argument in the catalog, and
\* whatever else the catalog then holds under another code or pair was there
\* before, unchanged
LastWriteWins ==
  /\ \A framework \in FrameworkPool :
       registerFramework(framework) =>
         /\ framework \in Range(MapValues(frameworks'))
         /\ \A f \in Range(MapValues(frameworks')) :
              f.code # framework.code => f \in Range(MapValues(frameworks))
  /\ \A rule \in RulePool :
       (registerRule(rule) /\ thrown' = NoError) =>
         /\ rule \in Range(MapValues(rules'))
         /\ \A r \in Range(MapValues(rules')) :
              Pair(r) # Pair(rule) => r \in Range(MapValues(rules))

\* C13: after any sequence of registerFramework and registerRule calls the
\* catalog holds at most one framework per code and at most one rule per
\* (framework, code) pair, each the one registered most recently under it,
\* and every rule of the catalog refers to a registered framework.
C13_LastWriteWins == []CatalogWellFormed /\ [][LastWriteWins]_vars

\* C13 witness: a catalog of two frameworks and three rules of both, in which
\* framework A and rule A:r1 are the ones offered second under their keys
C13_Witness ==
  /\ Len(frameworks) = 2
  /\ Len(rules) = 3
  /\ MapHas(frameworks, "A") /\ MapGet(frameworks, "A").version = "2"
  /\ MapHas(rules, "A:r1") /\ MapGet(rules, "A:r1").severity = "high"
  /\ MapHas(rules, "B:r1")
  /\ thrown = NoError

-----------------------------------------------------------------------------
(* C14 *)

\* the rule codes of a list of outcomes, and of a list of rules
CodesOfOutcomes(outcomes) == [i \in 1..Len(outcomes) |-> outcomes[i].rule_code]

CodesOfRules(rs) == [i \in 1..Len(rs) |-> rs[i].code]

\* the catalog rules of framework f that the criteria admit, in the order of
\* the catalog
SelectedOf(options, f) ==
  SelectSeqBy(MapValues(rules), {r \in Matching(options) : r.framework = f})

RECURSIVE Concat(_)
\* the concatenation of a sequence of sequences
Concat(ss) == IF ss = <<>> THEN <<>> ELSE Head(ss) \o Concat(Tail(ss))

\* s is an initial part of t
IsPrefix(s, t) == Len(s) <= Len(t) /\ s = SubSeq(t, 1, Len(s))

\* whatever the predicates do: each framework result lists the outcomes of
\* the framework's selected rules in the order of the catalog (the result in
\* progress an initial part of them), the framework results come in the
\* order of frameworks_tested, and detailed_results is their rule_results
\* concatenated in that order
ResultsInCatalogOrder ==
  \A c \in CallIds : Started(c) =>
    LET call == calls[c]
        res == call.results
        frs == res.framework_results
    IN  /\ Len(frs) <= Len(res.frameworks_tested)
        /\ Finished(c) => Len(frs) = Len(res.frameworks_tested)
        /\ \A i \in 1..Len(frs) :
             /\ frs[i].key = res.frameworks_tested[i]
             /\ CodesOfOutcomes(frs[i].value.rule_results)
                  = CodesOfRules(SelectedOf(call.options, frs[i].key))
        /\ call.pc = "awaiting" =>
             IsPrefix(CodesOfOutcomes(call.result.rule_results),
                      CodesOfRules(SelectedOf(call.options, call.result.framework_code)))
        /\ res.detailed_results
             = Concat([i \in 1..Len(frs) |->
                        MapGet(frs, res.frameworks_tested[i]).rule_results])

\* the order of the catalog is the order in which its rules were registered:
\* the rule a registerRule call has just registered comes last
CatalogInRegistrationOrder ==
  \A rule \in RulePool :
    (registerRule(rule) /\ thrown' = NoError) =>
      MapValues(rules')[Len(rules')] = rule

\* the order of the catalog is the order in which its keys were first
\* registered: a rule registered under a new key comes last, a rule
\* registered under a key of the catalog takes the place of the rule it
\* replaces
CatalogInFirstRegistrationOrder ==
  \A rule \in RulePool :
    (registerRule(rule) /\ thrown' = NoError) =>
      /\ Keys(rules') = IF MapHas(rules, ruleKey(rule)) THEN Keys(rules)
                        ELSE Append(Keys(rules), ruleKey(rule))
      /\ MapGet(rules', ruleKey(rule)) = rule
      /\ \A i \in 1..Len(rules) :
           rules[i].key # ruleKey(rule) => rules'[i] = rules[i]

\* C14 as stated: rule_results lists the outcomes of the framework's selected
\* rules in the order in which those rules were registered, detailed_results
\* is the frameworks' rule_results concatenated in the order of
\* frameworks_tested, and the order does not depend on what the predicates do.
C14_RegistrationOrder ==
  []ResultsInCatalogOrder /\ [][CatalogInRegistrationOrder]_vars

\* C14 amended: rule_results lists the outcomes of the framework's selected
\* rules in the order in which their keys framework:code were first
\* registered (a rule registered again under a key keeps the key's place),
\* detailed_results is the frameworks' rule_results concatenated in the order
\* of frameworks_tested, and the order does not depend on what the
\* predicates do.
C14_FirstRegistrationOrder ==
  []ResultsInCatalogOrder /\ [][CatalogInFirstRegistrationOrder]_vars

\* C14 witness: a returned result over two frameworks and three rules, the
\* first of them the rule offered second under A:r1, with an outcome that is
\* an error and one that is not
C14_Witness ==
  \E c \in CallIds :
    /\ Finished(c)
    /\ Len(rules) = 3
    /\ rules[1].key = "A:r1" /\ rules[1].value.severity = "high"
    /\ Len(calls[c].results.frameworks_tested) = 2
    /\ Len(calls[c].results.detailed_results) = 3
    /\ CountStatus(calls[c].results.detailed_results, {"ERROR"}) = 1
    /\ calls[c].results.detailed_results[1].rule_code = "r1"

-----------------------------------------------------------------------------
(* C15 *)

\* a result without what identifies the run (session_id; timestamp and
\* execution time are not modelled)
Content(results) == [results EXCEPT !.session_id = ""]

-----------------------------------------------------------------------------
(* C16 *)

\* C16: no step of an executeCompliance call (its start, a predicate
\* settling, its return, with or without errors or selected rules) changes
\* the catalog: the frameworks Map and the rules Map hold the same entries in
\* the same order after the step as before it.
C16_CatalogReadOnly ==
  [][(calls' # calls) => (frameworks' = frameworks /\ rules' = rules)]_vars

\* C16 witness: a call over a catalog of three rules has returned with an
\* outcome that is an error
C16_Witness ==
  \E c \in CallIds :
    /\ Finished(c)
    /\ Len(rules) = 3
    /\ Len(calls[c].results.detailed_results) = 3
    /\ CountStatus(calls[c].results.detailed_results, {"ERROR"}) >= 1

\* C16, the empty selection: a call over a catalog of three rules has
\* returned without selecting any
C16_WitnessEmptySelection ==
  \E c \in CallIds :
    /\ Finished(c)
    /\ Len(rules) = 3
    /\ calls[c].results.total_rules = 0

-----------------------------------------------------------------------------
(* C17 *)

RECURSIVE RunRules(_, _, _)
\* the loop of executeFrameworkRules run to its end with nothing in between
RunRules(result, frameworkRules, inputData) ==
  IF frameworkRules = <<>> THEN result
  ELSE LET rule == Head(frameworkRules)
       IN  RunRules(countRuleResult(result, executeRule(rule, inputData[rule.evaluate])),
                    Tail(frameworkRules), inputData)

RECURSIVE RunFrameworks(_, _, _)
\* the loop of executeCompliance run to its end with nothing in between
RunFrameworks(results, groups, inputData) ==
  IF groups = <<>> THEN results
  ELSE LET code == Head(groups).key
           frameworkRules == Head(groups).value
           frameworkResult ==
             finishFrameworkResult(
               RunRules(newFrameworkResult(code, frameworkRules), frameworkRules, inputData))
       IN  RunFrameworks(addFrameworkResult(results, code, frameworkResult),
                         Tail(groups), inputData)

\* the result of executeCompliance(inputData, options) run on its own
RunAlone(inputData, options) ==
  LET rulesToExecute == filterRules(options.frameworks, options.categories,
                                    options.severity)
      groups == groupRulesByFramework(rulesToExecute)
  IN  finishResults(RunFrameworks(newResults("", rulesToExecute, groups), groups, inputData))

\* C17: however two calls interleave at their awaits, the result each
\* returns is, apart from what identifies the run, the result of that call
\* run on its own, and what a call in flight has recorded so far is an
\* initial part of it; nothing of the other call is in it.
C17_Isolation ==
  \A c \in CallIds : Started(c) =>
    LET call == calls[c]
        alone == RunAlone(call.inputData, call.options)
    IN  /\ Finished(c) => Content(call.results) = Content(alone)
        /\ call.pc = "awaiting" =>
             /\ IsPrefix(call.results.detailed_results \o call.result.rule_results,
                         alone.detailed_results)
             /\ call.results.total_rules = alone.total_rules
             /\ call.results.frameworks_tested = alone.frameworks_tested

\* C17 witness: both calls are in flight, each between two of its rules, on
\* different snapshots and with different criteria
C17_Witness ==
  /\ \A c \in CallIds :
       /\ calls[c].pc = "awaiting"
       /\ Len(calls[c].results.detailed_results) + Len(calls[c].result.rule_results) >= 1
  /\ calls[1].inputData # calls[2].inputData
  /\ calls[1].options # calls[2].options

\* C17, returned: both calls have returned different results of at least two
\* outcomes
C17_WitnessReturned ==
  /\ \A c \in CallIds :
       Finished(c) /\ Len(calls[c].results.detailed_results) >= 2
  /\ calls[1].inputData # calls[2].inputData
  /\ Content(calls[1].results) # Content(calls[2].results)

-----------------------------------------------------------------------------
(* C18 *)

\* C18: any two calls of the process have different session ids, also when
\* they start in the same millisecond.
C18_UniqueSessionIds ==
  \A c, d \in CallIds :
    (c # d /\ Started(c) /\ Started(d)) =>
      calls[c].results.session_id # calls[d].results.session_id

\* what the code gives for C18: the session ids of two calls differ when the
\* calls start in different milliseconds
C18_DistinctAcrossMilliseconds ==
  [][\A c, d \in CallIds :
       (c # d /\ ~Started(c) /\ Started(c)' /\ Started(d)
          /\ calls[d].results.session_id
               \notin {generateSessionId(clock, randomStr) : randomStr \in RandomDraws})
       => calls'[c].results.session_id # calls'[d].results.session_id]_vars

-----------------------------------------------------------------------------
(* C19 *)

\* the classification of the claim
ClaimedLevel(score) ==
  CASE score \in 70..100 -> "High"
    [] score \in 40..69  -> "Medium"
    [] score \in 0..39   -> "Low"

-----------------------------------------------------------------------------
(* C20 *)

\* C20: for every result and every severity s, severity_distribution[s] is
\* the number of outcomes of detailed_results with status FAIL and severity
\* s; outcomes that passed are not counted.
C20_FailuresBySeverity ==
  (probe.done /\ ~probe.out.threw) =>
    \A s \in Severities :
      probe.out.risk_analysis.severity_distribution[s]
        = Cardinality({i \in 1..Len(probe.arg.detailed_results) :
                         /\ probe.arg.detailed_results[i].status = "FAIL"
                         /\ probe.arg.detailed_results[i].severity = s})

\* what the code gives for C20: severity_distribution[s] is the number of
\* outcomes of severity s, whatever their status
C20_OutcomesBySeverity ==
  (probe.done /\ ~probe.out.threw) =>
    \A s \in Severities :
      probe.out.risk_analysis.severity_distribution[s]
        = Cardinality({i \in 1..Len(probe.arg.detailed_results) :
                         probe.arg.detailed_results[i].severity = s})

-----------------------------------------------------------------------------
(* C21 *)

\* the weights of the claims C21 and C22
RankWeight(severity) ==
  CASE severity = "critical" -> 4
    [] severity = "high"     -> 3
    [] severity = "medium"   -> 2
    [] severity = "low"      -> 1

\* the positions of the outcomes with status FAIL
FailedAt(detailed_results) ==
  {i \in 1..Len(detailed_results) : detailed_results[i].status = "FAIL"}

\* the entries of `list` made from the outcome at position i
EntriesOf(list, detailed_results, i) ==
  {k \in 1..Len(list) : list[k].rule_code = detailed_results[i].rule_code}

\* C21: top_risks holds only outcomes with status FAIL, each at most once,
\* min(5, number of FAIL outcomes) of them, in non-increasing order of the
\* weight critical=4, high=3, medium=2, low=1, and no FAIL outcome left out
\* weighs more than one that is included.
C21_TopRisks ==
  (probe.done /\ ~probe.out.threw) =>
    LET detailed == probe.arg.detailed_results
        top      == probe.out.risk_analysis.top_risks
        failed   == FailedAt(detailed)
        included == {i \in failed : EntriesOf(top, detailed, i) # {}}
    IN  /\ \A k \in 1..Len(top) :
             \E i \in failed : /\ detailed[i].rule_code = top[k].rule_code
                               /\ detailed[i].severity = top[k].severity
        /\ \A i \in failed : Cardinality(EntriesOf(top, detailed, i)) <= 1
        /\ Len(top) = IF Cardinality(failed) < 5 THEN Cardinality(failed) ELSE 5
        /\ \A k \in 1..(Len(top) - 1) :
             RankWeight(top[k].severity) >= RankWeight(top[k + 1].severity)
        /\ \A i \in failed \ included : \A j \in included :
             RankWeight(detailed[i].severity) <= RankWeight(detailed[j].severity)

\* C21 witness: a result with an outcome that threw, one that passed and six
\* that failed, the first failure of severity low and the last critical; the
\* critical one comes first in top_risks and the low one is left out
C21_Witness ==
  /\ probe.done
  /\ ~probe.out.threw
  /\ LET detailed == probe.arg.detailed_results
         top      == probe.out.risk_analysis.top_risks
     IN  /\ Len(detailed) = 9
         /\ detailed[1].status = "ERROR" /\ detailed[1].severity = "critical"
         /\ detailed[8].status = "PASS" /\ detailed[8].severity = "critical"
         /\ Cardinality(FailedAt(detailed)) = 6
         /\ detailed[2].severity = "low"
         /\ \A i \in 3..6 : detailed[i].severity = "high"
         /\ detailed[7].severity = "critical"
         /\ Len(top) = 5
         /\ top[1].rule_code = detailed[7].rule_code
         /\ EntriesOf(top, detailed, 2) = {}

-----------------------------------------------------------------------------
(* C22 *)

\* C22: remediation_priority holds exactly one entry for every outcome with
\* status FAIL and none for any other outcome, each with the business impact
\* critical=4, high=3, medium=2, low=1 of its severity, in non-increasing
\* order of severity weight x business impact.
C22_RemediationPriority ==
  (probe.done /\ ~probe.out.threw) =>
    LET detailed   == probe.arg.detailed_results
        priorities == probe.out.remediation_priority
        failed     == FailedAt(detailed)
    IN  /\ \A i \in failed : Cardinality(EntriesOf(priorities, detailed, i)) = 1
        /\ \A i \in (1..Len(detailed)) \ failed : EntriesOf(priorities, detailed, i) = {}
        /\ Len(priorities) = Cardinality(failed)
        /\ \A k \in 1..Len(priorities) :
             /\ \E i \in failed : /\ detailed[i].rule_code = priorities[k].rule_code
                                  /\ detailed[i].severity = priorities[k].severity
             /\ priorities[k].business_impact = RankWeight(priorities[k].severity)
        /\ \A k \in 1..(Len(priorities) - 1) :
             RankWeight(priorities[k].severity) * priorities[k].business_impact
               >= RankWeight(priorities[k + 1].severity) * priorities[k + 1].business_impact

\* C22 witness: a result with an outcome that threw, one that passed and
\* three that failed with the severities low, critical and medium in this
\* order; the list has the three in the order critical, medium, low
C22_Witness ==
  /\ probe.done
  /\ ~probe.out.threw
  /\ LET detailed   == probe.arg.detailed_results
         priorities == probe.out.remediation_priority
     IN  /\ Len(detailed) = 6
         /\ detailed[1].status = "ERROR"
         /\ detailed[5].status = "PASS" /\ detailed[5].severity = "critical"
         /\ detailed[2].status = "FAIL" /\ detailed[2].severity = "low"
         /\ detailed[3].status = "FAIL" /\ detailed[3].severity = "critical"
         /\ detailed[4].status = "FAIL" /\ detailed[4].severity = "medium"
         /\ Len(priorities) = 3
         /\ priorities[1].rule_code = detailed[3].rule_code
         /\ priorities[2].rule_code = detailed[4].rule_code
         /\ priorities[3].rule_code = detailed[2].rule_code

-----------------------------------------------------------------------------
(* C23 *)

\* the listing of the claim: both built-in frameworks with their numbers of
\* rules
BuiltinListing(listing) ==
  /\ listing.total_frameworks = 2
  /\ listing.total_rules = 11
  /\ Len(listing.frameworks) = 2
  /\ \E i \in 1..Len(listing.frameworks) :
       listing.frameworks[i].code = "CIS" /\ listing.frameworks[i].rules_count = 6
  /\ \E i \in 1..Len(listing.frameworks) :
       listing.frameworks[i].code = "ISO27001" /\ listing.frameworks[i].rules_count = 5

\* C23: in every state of the service, also before any compliance check has
\* run, the frameworks listing holds CIS with 6 rules and ISO27001 with 5,
\* total_frameworks = 2 and total_rules = 11.
C23_FrameworksListing == BuiltinListing(frameworksListing)

\* what the code gives for C23: the listing of the claim from the first
\* initialize() on, and an empty one before
C23_ListingOnceInitialized ==
  IF initialized THEN BuiltinListing(frameworksListing)
  ELSE frameworksListing = [frameworks |-> <<>>, total_frameworks |-> 0, total_rules |-> 0]

-----------------------------------------------------------------------------
(* C25 *)

\* every list of outcomes a call holds: the framework result in progress,
\* the framework results added so far, and detailed_results
OutcomeListsOf(c) ==
  (IF calls[c].pc = "awaiting" THEN {calls[c].result.rule_results} ELSE {})
    \cup {calls[c].results.framework_results[i].value.rule_results :
            i \in 1..Len(calls[c].results.framework_results)}
    \cup {calls[c].results.detailed_results}

\* C25: no outcome the engine records has status SKIP, every one is PASS,
\* FAIL or ERROR; `skipped` is 0 in every framework result and
\* `skipped_rules` is 0 in every evaluation result.
C25_NeverSkipped ==
  \A c \in CallIds : Started(c) =>
    /\ \A outcomes \in OutcomeListsOf(c) : \A i \in 1..Len(outcomes) :
         outcomes[i].status \in {"PASS", "FAIL", "ERROR"}
    /\ calls[c].pc = "awaiting" => calls[c].result.skipped = 0
    /\ \A i \in 1..Len(calls[c].results.framework_results) :
         calls[c].results.framework_results[i].value.skipped = 0
    /\ calls[c].results.skipped_rules = 0

\* C25 witness: a returned result of two frameworks and three rules, of
\* which some failed and the others rejected
C25_Witness ==
  \E c \in CallIds :
    /\ Finished(c)
    /\ Len(calls[c].results.framework_results) = 2
    /\ Len(calls[c].results.detailed_results) = 3
    /\ CountStatus(calls[c].results.detailed_results, {"FAIL"}) >= 1
    /\ CountStatus(calls[c].results.detailed_results, {"ERROR"}) >= 1

-----------------------------------------------------------------------------
(* C26 *)

\* C26: in a returned result the counters add up, whatever the predicates
\* did: passed + failed + skipped = total in every framework result, and
\* passed_rules + failed_rules + skipped_rules = total_rules.
C26_CountersAddUp ==
  \A c \in CallIds : Finished(c) =>
    LET res == calls[c].results
    IN  /\ \A i \in 1..Len(res.framework_results) :
             LET fr == res.framework_results[i].value
             IN  fr.passed + fr.failed + fr.skipped = fr.total
        /\ res.passed_rules + res.failed_rules + res.skipped_rules = res.total_rules

\* what the code gives for C26: the counters fall short of the total by the
\* number of ERROR outcomes
C26_CountersLeaveOutErrors ==
  \A c \in CallIds : Finished(c) =>
    LET res == calls[c].results
    IN  /\ \A i \in 1..Len(res.framework_results) :
             LET fr == res.framework_results[i].value
             IN  fr.passed + fr.failed + fr.skipped
                   = fr.total - CountStatus(fr.rule_results, {"ERROR"})
        /\ res.passed_rules + res.failed_rules + res.skipped_rules
             = res.total_rules - CountStatus(res.detailed_results, {"ERROR"})

-----------------------------------------------------------------------------
(* C27 *)

\* C27: in a returned result, total_rules is the length of detailed_results
\* and the sum of the frameworks' totals; frameworks_tested is the keys of
\* framework_results; a framework has a result exactly if one of its rules
\* was selected, and no framework result has total = 0.
C27_TotalsAndFrameworks ==
  \A c \in CallIds : Finished(c) =>
    LET res == calls[c].results
        totals == [i \in 1..Len(res.framework_results) |->
                     res.framework_results[i].value.total]
    IN  /\ res.total_rules = Len(res.detailed_results)
        /\ res.total_rules = SumTo(totals, Len(totals))
        /\ res.frameworks_tested = Keys(res.framework_results)
        /\ \A f \in {fw.code : fw \in FrameworkPool \cup {CIS_FRAMEWORK, ISO27001_FRAMEWORK}}
                  \cup {r.framework : r \in RulePool} :
             MapHas(res.framework_results, f)
               <=> \E r \in Matching(calls[c].options) : r.framework = f
        /\ \A i \in 1..Len(totals) : totals[i] > 0

\* C27 witness: a returned result over a catalog of two frameworks with
\* rules, of which the criteria selected the two rules of one
C27_Witness ==
  \E c \in CallIds :
    /\ Finished(c)
    /\ Len(frameworks) = 2
    /\ \E i, j \in 1..Len(rules) : rules[i].value.framework # rules[j].value.framework
    /\ Len(calls[c].results.frameworks_tested) = 1
    /\ calls[c].results.total_rules = 2
    /\ Len(calls[c].results.detailed_results) = 2

-----------------------------------------------------------------------------
(* C28 *)

\* the keys of the rules a call selected, in the order in which it runs
\* them: framework after framework, each framework's rules in their order
RunOrder(call) ==
  Concat([i \in 1..Len(call.rulesByFramework) |->
            [j \in 1..Len(call.rulesByFramework[i].value) |->
               ruleKey(call.rulesByFramework[i].value[j])]])

\* the number of rules of a call whose predicate has settled: those with an
\* outcome in a finished framework or in the framework in progress
Settled(call) ==
  Len(call.results.detailed_results)
    + (IF call.pc = "awaiting" THEN Len(call.result.rule_results) ELSE 0)

\* at most one predicate of a call is in flight: that of the rule that
\* follows the settled ones while the call is suspended, none once it has
\* returned
OneInFlight ==
  \A c \in CallIds : Started(c) =>
    LET call == calls[c]
    IN  /\ Cardinality(call.inFlight) <= 1
        /\ call.pc = "awaiting" =>
             /\ Settled(call) < Len(RunOrder(call))
             /\ call.inFlight = {RunOrder(call)[Settled(call) + 1]}
        /\ call.pc = "done" =>
             call.inFlight = {} /\ Settled(call) = Len(RunOrder(call))

\* a predicate is invoked only when every rule before its own in the order
\* of the call has settled, the rules of the previous frameworks included,
\* and nothing else of the call is in flight
InvokedAfterSettled ==
  \A c \in CallIds :
    \A k \in calls'[c].inFlight \ calls[c].inFlight :
      /\ calls'[c].inFlight = {k}
      /\ \E n \in 1..Len(RunOrder(calls'[c])) :
           /\ RunOrder(calls'[c])[n] = k
           /\ Settled(calls'[c]) = n - 1
           /\ \A m \in 1..(n - 1) :
                RunOrder(calls'[c])[m] \notin calls'[c].inFlight

\* C28: within one call the predicates run strictly one at a time: a rule's
\* predicate is invoked only after the predicate of the rule before it has
\* settled, the first rule of a framework only after every rule of the
\* previous framework has settled, and at most one predicate of the call is
\* in flight at any moment.
C28_OneAtATime == []OneInFlight /\ [][InvokedAfterSettled]_vars

\* C28 witness: two calls suspended at the same time, one of them in its
\* second framework with the outcomes of the first framework recorded and
\* one predicate in flight
C28_Witness ==
  /\ \A c \in CallIds : calls[c].pc = "awaiting"
  /\ \E c \in CallIds :
       /\ calls[c].fw = 2
       /\ Len(calls[c].results.detailed_results) >= 2
       /\ Cardinality(calls[c].inFlight) = 1

-----------------------------------------------------------------------------
(* C29 *)

\* C29: a registration of a rule that succeeds overwrites no rule of another
\* (framework, code) pair: every rule the catalog held under another pair
\* is still in the catalog and in what getRules returns, whatever the codes
\* are, codes that contain ':' included.
C29_NoOverwriteAcrossPairs ==
  [][\A rule \in ColonRulePool :
       (registerRule(rule) /\ thrown' = NoError) =>
         \A r \in Range(MapValues(rules)) :
           Pair(r) # Pair(rule) =>
             /\ r \in Range(MapValues(rules'))
             /\ r \in Range(getRules(NoCode)')
             /\ r \in Range(getRules(r.framework)')]_vars

\* what the code gives for C29: a registration keeps the rules whose key
\* `framework:code` is another string than its own
C29_NoOverwriteAcrossKeys ==
  [][\A rule \in ColonRulePool :
       (registerRule(rule) /\ thrown' = NoError) =>
         \A r \in Range(MapValues(rules)) :
           ruleKey(r) # ruleKey(rule) =>
             /\ r \in Range(MapValues(rules'))
             /\ r \in Range(getRules(NoCode)')
             /\ r \in Range(getRules(r.framework)')]_vars

-----------------------------------------------------------------------------
(* C30 *)

\* C30: when storing the results fails, because the insert fails or because
\* the database is unavailable at that moment, runComplianceCheck throws
\* nothing and returns the complete result of the evaluation: the result the
\* engine returned, with the upload's metadata.
C30_StoreFailureTolerated ==
  check.store \in {"insertFails", "unavailable"} =>
    /\ check.pc = "returned"
    /\ check.error = NoError
    /\ Finished(1)
    /\ check.returned
         = withUploadMetadata(calls[1].results, check.uploadId, check.uploadData)
    /\ Len(check.returned.detailed_results) = check.returned.total_rules
    /\ scan_results = <<>>

\* C30 witness: a check of three rules, of which one rejected, returned after
\* the insert of its results failed
C30_Witness ==
  /\ check.pc = "returned"
  /\ check.store = "insertFails"
  /\ check.returned.total_rules = 3
  /\ check.returned.upload_id = "upload-1"
  /\ CountStatus(check.returned.detailed_results, {"ERROR"}) = 1
  /\ scan_results = <<>>

\* C30 witness: a check returned while the database was unavailable at store
\* time (it was available when the upload was loaded)
C30_WitnessUnavailable ==
  /\ check.pc = "returned"
  /\ check.store = "unavailable"
  /\ check.returned.total_rules = 3
  /\ scan_results = <<>>

-----------------------------------------------------------------------------
(* C24 *)

\* the selected rules of a call whose predicate never settles on the call's
\* snapshot
Hanging(c) ==
  {r \in Range(Concat([i \in 1..Len(calls[c].rulesByFramework) |->
                         calls[c].rulesByFramework[i].value])) :
     calls[c].inputData[r.evaluate].kind = "pending"}

\* a call in which the predicate of a selected rule never settles does not
\* return: it has no final result, and stays suspended at the first such
\* rule at the latest
StalledForGood ==
  \A c \in CallIds : (Started(c) /\ Hanging(c) # {}) =>
    /\ ~Finished(c)
    /\ calls[c].pc = "awaiting"
    /\ \A i \in 1..Len(calls[c].results.detailed_results) :
         \A r \in Hanging(c) : calls[c].results.detailed_results[i].rule_code # r.code

\* C24: a call in which every selected rule's predicate settles eventually
\* returns its result; a call in which the predicate of some selected rule
\* never settles never returns, and no result is produced for it.
C24_ReturnsIffAllSettle ==
  /\ \A c \in CallIds : (Started(c) /\ Hanging(c) = {}) ~> Finished(c)
  /\ []StalledForGood

\* C24 witness: a call that returned the outcomes of its two rules, on a
\* snapshot on which the predicate of a rule it did not select hangs
C24_Witness ==
  /\ Finished(1)
  /\ calls[1].results.total_rules = 2
  /\ Len(calls[1].results.detailed_results) = 2
  /\ Hanging(1) = {}
  /\ \E p \in BuiltinCodes : calls[1].inputData[p].kind = "pending"

\* C24 witness: a call suspended for good at the third of its three rules,
\* in its second framework, the outcomes of the first two recorded
C24_WitnessStalled ==
  /\ calls[1].pc = "awaiting"
  /\ calls[1].fw = 2
  /\ Len(calls[1].results.detailed_results) = 2
  /\ Hanging(1) # {}
  /\ \E r \in Hanging(1) : calls[1].inFlight = {ruleKey(r)}

====
